---- MODULE Spec2Model ----
(***************************************************************************)
(* A model of the autoencoder anomaly detector: MLPAutoencoder and         *)
(* EnsembleAutoencoder (src/autoencoder.js), BinanceDataLoader             *)
(* (src/binance-data-loader.js) and AnomalyDetectionApp                    *)
(* (src/unnamed/part_000).                                                 *)
(*                                                                         *)
(* Numbers.  Feature values, reconstructions and feature contributions are *)
(* integers in tenths (3 stands for 0.3).  A reconstruction error is the   *)
(* sum of the squared differences of one row, that is the row's mean       *)
(* squared error in units of 1/(100 * inputSize).  A threshold is the      *)
(* exact real (a + b*sqrt(d))/c in the same unit, kept as the record       *)
(* [a, b, d, c] with b >= 0, d >= 0, c > 0, so that mean + 1.5*std is held *)
(* without rounding and every comparison of the code is decided exactly.   *)
(***************************************************************************)
EXTENDS Integers, Sequences, FiniteSets, TLC

VARIABLES mlp, fit, ret, ens, app, loader, fn, store

vars == <<mlp, fit, ret, ens, app, loader, fn, store>>

-----------------------------------------------------------------------------
(* Bounds of the model.                                                    *)

MaxRows == 3
MaxEpochs == 9
SmallEpochs == 1
MaxLen == 3
MaxErr == 3
MaxLongLen == 22
MaxMembers == 5
MaxInstances == 2
MaxCalls == 2
MaxPending == 1
MaxCandles == 4
MaxShort == 3
MaxSeries == 26

-----------------------------------------------------------------------------
(* Program constants.                                                      *)

InputSize == 12
DefaultEpochs == 30
DefaultBatchSize == 64
EarlyStoppingPatience == 5
EnsembleSize == 3
EnsembleEpochCap == 30
EnsembleDefaultEpochs == 50
TrainPercentage == 80
RsiWindow == 13
BollingerWindow == 19
RegimeWindow == 23
MinRsiPoints == 2
MinBollingerPoints == 20
MinRegimePoints == 24
VolumeSpikeOffset == 30
MaxApiLimit == 1000
BatchSize == 900
LookbackDays == 60
DefaultLimit == 1500
\* Times are held in seconds: 24 * 60 * 60 * 1000 ms is one day.
HourSeconds == 3600
DaySeconds == 24 * HourSeconds

FeatureNames ==
    << "priceChange", "volume", "fundingRateProxy", "openInterestProxy",
       "priceAcceleration", "volumeSpike", "priceGap", "priceMomentum",
       "volumeMomentum", "rsi", "bollingerPosition", "marketRegime" >>

-----------------------------------------------------------------------------
(* Arithmetic helpers.                                                     *)

RECURSIVE SumSeq(_)
SumSeq(s) == IF s = <<>> THEN 0 ELSE Head(s) + SumSeq(Tail(s))

Square(x) == x * x

Abs(x) == IF x < 0 THEN -x ELSE x

\* Math.ceil(n / 2) for a natural n.
CeilHalf(n) == (n + 1) \div 2

\* L >= R*sqrt(D) and L > R*sqrt(D), for R >= 0 and D >= 0.
LinGeq(L, R, D) == L >= 0 /\ L * L >= R * R * D
LinGt(L, R, D) == L > 0 /\ L * L > R * R * D

\* The real numbers (a + b*sqrt(d))/c.
Num(a) == [a |-> a, b |-> 0, d |-> 0, c |-> 1]
Scale(t, num, den) == [a |-> t.a * num, b |-> t.b * num, d |-> t.d, c |-> t.c * den]
IsZero(t) == t.a = 0 /\ (t.b = 0 \/ t.d = 0)

\* e >= t, e > t and e < t for an integer e and a real t.
Geq(e, t) == LinGeq(e * t.c - t.a, t.b, t.d)
Gt(e, t) == LinGt(e * t.c - t.a, t.b, t.d)
Lt(e, t) == ~Geq(e, t)
\* t <= e, the same comparison read from the other side.
Leq(t, e) == Geq(e, t)

\* JS null for a field that otherwise holds a record.
Null == [k |-> "null"]

-----------------------------------------------------------------------------
(* The network.  The weights of a built model are one of three networks:   *)
(* "zero" reconstructs every row as the zero vector (the state of a        *)
(* network whose output layer is dead), "project" passes the first two     *)
(* features through its two latent units and reconstructs the others as 0, *)
(* "const" reconstructs every row as one fixed vector.                     *)

Weights == {"zero", "project", "const"}

Row(p, v, a, s, g, m) == <<p, v, 0, 0, a, s, g, m, 0, 0, 0, 0>>

ConstOutput == Row(5, 3, 0, 0, 0, 0)

\* model.predict on one row.
Predict(w, row) ==
    CASE w = "zero" -> [i \in 1..Len(row) |-> 0]
      [] w = "project" -> [i \in 1..Len(row) |-> IF i <= 2 THEN row[i] ELSE 0]
      [] OTHER -> ConstOutput

\* tf.mean(tf.square(tf.sub(X, reconstructions)), 1) for one row.
RowError(w, row) ==
    LET rec == Predict(w, row)
    IN SumSeq([i \in 1..Len(row) |-> Square(row[i] - rec[i])])

ErrorArray(w, X) == [i \in 1..Len(X) |-> RowError(w, X[i])]

-----------------------------------------------------------------------------
(* MLPAutoencoder.calculateThreshold.                                      *)

RECURSIVE InsertAsc(_, _)
InsertAsc(x, s) ==
    IF s = <<>> THEN <<x>>
    ELSE IF x < Head(s) THEN <<x>> \o s
    ELSE <<Head(s)>> \o InsertAsc(x, Tail(s))

\* [...errorArray].sort((a, b) => a - b)
RECURSIVE SortAsc(_)
SortAsc(s) == IF s = <<>> THEN <<>> ELSE InsertAsc(Head(s), SortAsc(Tail(s)))

\* Math.floor(sortedErrors.length * 0.99), the index of p99.
PercentileIndex99(n) == (n * 99) \div 100

\* Math.floor(sortedErrors.length * 0.95), a 0-based index.
PercentileIndex(n) == (n * 95) \div 100

\* mean + 1.5 * std.  With S the sum and SS the sum of squares of the n
\* errors, mean = S/n and std = sqrt(n*SS - S*S)/n, so the value is
\* (2*S + 3*sqrt(n*SS - S*S)) / (2*n).
StatisticalThreshold(errorArray) ==
    LET n == Len(errorArray)
        S == SumSeq(errorArray)
        SS == SumSeq([i \in 1..n |-> Square(errorArray[i])])
    IN [a |-> 2 * S, b |-> 3, d |-> n * SS - S * S, c |-> 2 * n]

\* sortedErrors[Math.floor(sortedErrors.length * 0.95)]
PercentileThreshold(errorArray) ==
    SortAsc(errorArray)[PercentileIndex(Len(errorArray)) + 1]

\* Math.min(this.threshold, p95)
MinThreshold(stat, p95) == IF Leq(stat, p95) THEN stat ELSE Num(p95)

\* The threshold calculateThreshold stores for the given per-row errors.
ThresholdOf(errorArray) ==
    MinThreshold(StatisticalThreshold(errorArray), PercentileThreshold(errorArray))

calculateThreshold(m, X_train) ==
    [m EXCEPT !.threshold = ThresholdOf(ErrorArray(m.model, X_train))]

-----------------------------------------------------------------------------
(* MLPAutoencoder.detectAnomalies and its helpers.                         *)

HighContributorLevel == 3
PriceChangeLevel == 4
VolumeSpikeLevel == 2
PriceAccelLevel == 3
VolumeLevel == 2
MinHighContributors == 3

calculateFeatureContributions(original, reconstruction) ==
    [i \in 1..Len(original) |->
        [feature |-> FeatureNames[i],
         contribution |-> Abs(original[i] - reconstruction[i]),
         originalValue |-> original[i],
         reconstructedValue |-> reconstruction[i]]]

\* featureContributions.find(f => f.feature === name)?.contribution || 0
ContributionOf(featureContributions, name) ==
    LET hits == {i \in 1..Len(featureContributions) :
                    featureContributions[i].feature = name}
    IN IF hits = {} THEN 0
       ELSE featureContributions[CHOOSE i \in hits : \A j \in hits : i <= j].contribution

\* hasHighError: error > threshold * 2
HasHighError(error, threshold) == Gt(error, Scale(threshold, 2, 1))

\* More than three high contributors asked for, instead of at least three.
HasMoreThanThreeHighContributors(featureContributions) ==
    Cardinality({i \in 1..Len(featureContributions) :
                    featureContributions[i].contribution > HighContributorLevel})
        > MinHighContributors

HasMultipleHighContributors(featureContributions) ==
    Cardinality({i \in 1..Len(featureContributions) :
                    featureContributions[i].contribution > HighContributorLevel})
        >= MinHighContributors

HasCrashPattern(featureContributions) ==
    \/ /\ ContributionOf(featureContributions, "priceChange") > PriceChangeLevel
       /\ ContributionOf(featureContributions, "volumeSpike") > VolumeSpikeLevel
    \/ /\ ContributionOf(featureContributions, "priceAcceleration") > PriceAccelLevel
       /\ ContributionOf(featureContributions, "volume") > VolumeLevel

detectMajorMarketEvent(featureContributions, error, threshold) ==
    /\ HasHighError(error, threshold)
    /\ (HasMultipleHighContributors(featureContributions)
          \/ HasCrashPattern(featureContributions))

\* The critical level put at three times the threshold.
CriticalThresholdTripled(threshold) == Scale(threshold, 3, 1)

\* The severity of one row.  criticalThreshold is threshold * 1.2.
CriticalThreshold(threshold) == Scale(threshold, 12, 10)

\* The comparisons made strict.
SeverityOfStrict(error, warningThreshold, criticalThreshold) ==
    IF Gt(error, criticalThreshold) THEN "critical"
    ELSE IF Gt(error, warningThreshold) THEN "warning"
    ELSE "normal"

SeverityOf(error, warningThreshold, criticalThreshold) ==
    IF Geq(error, criticalThreshold) THEN "critical"
    ELSE IF Geq(error, warningThreshold) THEN "warning"
    ELSE "normal"

\* Array.prototype.sort with the comparator (a, b) => b.error - a.error: a
\* stable sort, so a record is placed after the records already placed whose
\* error is at least its own.
RECURSIVE InsertDesc(_, _)
InsertDesc(x, s) ==
    IF s = <<>> THEN <<x>>
    ELSE IF Head(s).error >= x.error THEN <<Head(s)>> \o InsertDesc(x, Tail(s))
    ELSE <<x>> \o s

RECURSIVE SortDesc(_)
SortDesc(s) ==
    IF s = <<>> THEN <<>>
    ELSE InsertDesc(s[Len(s)], SortDesc(SubSeq(s, 1, Len(s) - 1)))

\* A sort that is not stable: a record goes before the records of equal error.
RECURSIVE InsertDescUnstable(_, _)
InsertDescUnstable(x, s) ==
    IF s = <<>> THEN <<x>>
    ELSE IF Head(s).error > x.error
         THEN <<Head(s)>> \o InsertDescUnstable(x, Tail(s))
    ELSE <<x>> \o s

RECURSIVE SortDescUnstable(_)
SortDescUnstable(s) ==
    IF s = <<>> THEN <<>>
    ELSE InsertDescUnstable(s[Len(s)], SortDescUnstable(SubSeq(s, 1, Len(s) - 1)))

SortByErrorUnstable(anomalies) == SortDescUnstable(anomalies)

\* anomalies.sort((a, b) => b.error - a.error)
SortByError(anomalies) == SortDesc(anomalies)

\* metadata is <<>> for null, otherwise the sequence of the rows' metadata,
\* each a positive number (a timestamp); 0 stands for a record's null.
NoMetadata == <<>>
MetadataAt(metadata, i) == IF metadata = NoMetadata THEN 0 ELSE metadata[i]

\* The record pushed for row i (1-based here, index is the code's 0-based i).
AnomalyOf(m, X, metadata, i) ==
    LET error == RowError(m.model, X[i])
        warningThreshold == m.threshold
        criticalThreshold == CriticalThreshold(m.threshold)
        severity == SeverityOf(error, warningThreshold, criticalThreshold)
        contributions == calculateFeatureContributions(X[i], Predict(m.model, X[i]))
    IN IF metadata = NoMetadata
       THEN [index |-> i - 1,
             error |-> error,
             severity |-> severity,
             threshold |-> m.threshold,
             warningThreshold |-> warningThreshold,
             criticalThreshold |-> criticalThreshold,
             metadata |-> 0]
       ELSE [index |-> i - 1,
             error |-> error,
             severity |-> severity,
             threshold |-> m.threshold,
             warningThreshold |-> warningThreshold,
             criticalThreshold |-> criticalThreshold,
             metadata |-> metadata[i],
             featureContributions |-> contributions,
             isMajorEvent |-> detectMajorMarketEvent(contributions, error, m.threshold)]

CountSeverity(anomalies, severity) ==
    Cardinality({i \in 1..Len(anomalies) : anomalies[i].severity = severity})

\* !this.model || !this.threshold: null, 0 and NaN are all falsy.
Falsy(threshold) == threshold = Null \/ IsZero(threshold)

detectAnomalies(m, X, metadata) ==
    IF m.model = "null" \/ Falsy(m.threshold)
    THEN [status |-> "error",
          message |-> "Model not trained or threshold not calculated"]
    ELSE LET anomalies == [i \in 1..Len(X) |-> AnomalyOf(m, X, metadata, i)]
         IN [status |-> "ok",
             anomalies |-> SortByError(anomalies),
             severityLevels |-> [normal |-> CountSeverity(anomalies, "normal"),
                                 warning |-> CountSeverity(anomalies, "warning"),
                                 critical |-> CountSeverity(anomalies, "critical")],
             threshold |-> m.threshold,
             totalSamples |-> Len(X),
             anomalyRate |-> [num |-> CountSeverity(anomalies, "warning")
                                        + CountSeverity(anomalies, "critical"),
                              den |-> Len(X)]]


-----------------------------------------------------------------------------
(* One MLPAutoencoder instance and its training run.                       *)

Tensor(X) == [k |-> "tensor", rows |-> X]
History(losses) == [k |-> "history", val_loss |-> losses]

\* bestValLoss starts at Infinity.
Infinity == [fin |-> FALSE, v |-> 0]
Finite(v) == [fin |-> TRUE, v |-> v]
LossLt(x, best) == ~best.fin \/ x < best.v

\* The state the constructor leaves.  dropoutRate is held in hundredths and
\* learningRate in units of 0.00001.
NewMLP ==
    [model |-> "null",
     inputSize |-> InputSize,
     history |-> Null,
     threshold |-> Null,
     trainingData |-> Null,
     isTraining |-> FALSE,
     isTrained |-> FALSE,
     encoderUnits |-> <<16, 8, 4>>,
     latentSize |-> 2,
     decoderUnits |-> <<4, 8, 16>>,
     dropoutRate |-> 20,
     learningRate |-> 100,
     epochs |-> DefaultEpochs,
     batchSize |-> DefaultBatchSize,
     earlyStoppingPatience |-> EarlyStoppingPatience]

\* No training run in progress.
IdleFit ==
    [pc |-> "idle", epochs |-> 0, epoch |-> 0, batch |-> 0, bestValLoss |-> Infinity,
     patienceCounter |-> 0, stopTraining |-> FALSE, val_loss |-> <<>>,
     batches |-> 0, X_train |-> <<>>, X_validation |-> <<>>]

\* logs.val_loss: the validation loss of the weights w, the sum of the
\* validation rows' errors (the mean in units of 1/rows).
ValLoss(w, X_validation) == SumSeq(ErrorArray(w, X_validation))

\* train() up to the call of model.fit: buildModel when there is no model
\* (w0 are the initial weights), then the assignments of lines 116-118.
trainBegin(m, w0, X_train, epochs, batchSize) ==
    [m EXCEPT !.model = IF m.model = "null" THEN w0 ELSE @,
              !.epochs = IF epochs # 0 THEN epochs ELSE @,
              !.batchSize = IF batchSize # 0 THEN batchSize ELSE @,
              !.trainingData = Tensor(X_train)]

\* An improvement counted also when the loss equals the best.
onEpochEndNonStrict(f, patience, val_loss) ==
    LET improved == ~f.bestValLoss.fin \/ val_loss <= f.bestValLoss.v
        counter == IF improved THEN 0 ELSE f.patienceCounter + 1
    IN [f EXCEPT !.epoch = @ + 1,
                 !.batch = 0,
                 !.bestValLoss = IF improved THEN Finite(val_loss) ELSE @,
                 !.patienceCounter = counter,
                 !.stopTraining = (@ \/ counter >= patience),
                 !.val_loss = Append(@, val_loss)]

\* The end of an epoch: the onEpochEnd callback, on the locals of the call.
onEpochEnd(f, patience, val_loss) ==
    LET improved == LossLt(val_loss, f.bestValLoss)
        counter == IF improved THEN 0 ELSE f.patienceCounter + 1
    IN [f EXCEPT !.epoch = @ + 1,
                 !.batch = 0,
                 !.bestValLoss = IF improved THEN Finite(val_loss) ELSE @,
                 !.patienceCounter = counter,
                 !.stopTraining = (@ \/ counter >= patience),
                 !.val_loss = Append(@, val_loss)]

\* The fit loop goes on while epochs remain and stopTraining is not set.
FitRunning(f) == f.pc = "fit" /\ f.epoch < f.epochs /\ ~f.stopTraining

\* The mini-batches of one epoch: Math.ceil(rows / batchSize).
NumBatches(X_train, batchSize) == (Len(X_train) + batchSize - 1) \div batchSize
FitOver(f) == f.pc = "fit" /\ ~FitRunning(f)

\* train() after model.fit has resolved: lines 163-171.
trainEnd(m, f) ==
    [calculateThreshold([m EXCEPT !.history = History(f.val_loss)], f.X_train)
        EXCEPT !.isTrained = TRUE, !.isTraining = FALSE]

\* dispose()
dispose(m) ==
    [m EXCEPT !.model = "null", !.history = Null, !.threshold = Null,
              !.trainingData = Null, !.isTraining = FALSE, !.isTrained = FALSE]

\* The browser storage: the model saved under 'indexeddb://autoencoder-model'
\* and the item 'autoencoder-config' of localStorage, "none" and Null when
\* absent.
EmptyStore == [model |-> "none", config |-> Null]

\* modelData, without its timestamp, which nothing reads.  JSON.stringify
\* and JSON.parse give back a finite number, null and an array of integers
\* as they were.
ModelData(m) ==
    [threshold |-> m.threshold,
     inputSize |-> m.inputSize,
     encoderUnits |-> m.encoderUnits,
     latentSize |-> m.latentSize,
     decoderUnits |-> m.decoderUnits,
     dropoutRate |-> m.dropoutRate,
     learningRate |-> m.learningRate]

\* The storage after a saveWeights() that succeeds, for an instance that has
\* a model.
saveWeights(m, st) == [st EXCEPT !.model = m.model, !.config = ModelData(m)]

\* The threshold of the instance kept instead of the stored one.
loadWeightsKeepThreshold(m, st) ==
    IF st.config = Null THEN [m EXCEPT !.model = st.model]
    ELSE [m EXCEPT !.model = st.model,
                   !.inputSize = st.config.inputSize,
                   !.encoderUnits = st.config.encoderUnits,
                   !.latentSize = st.config.latentSize,
                   !.decoderUnits = st.config.decoderUnits,
                   !.dropoutRate = st.config.dropoutRate,
                   !.learningRate = st.config.learningRate]

\* The instance after a loadWeights() that finds a stored model.
loadWeights(m, st) ==
    IF st.config = Null THEN [m EXCEPT !.model = st.model]
    ELSE [m EXCEPT !.model = st.model,
                   !.threshold = st.config.threshold,
                   !.inputSize = st.config.inputSize,
                   !.encoderUnits = st.config.encoderUnits,
                   !.latentSize = st.config.latentSize,
                   !.decoderUnits = st.config.decoderUnits,
                   !.dropoutRate = st.config.dropoutRate,
                   !.learningRate = st.config.learningRate]

\* The locals of a train() call at the call of model.fit.
fitBegin(m, X_train, X_validation) ==
    [IdleFit EXCEPT !.pc = "fit", !.epochs = m.epochs,
                    !.batches = NumBatches(X_train, m.batchSize),
                    !.X_train = X_train, !.X_validation = X_validation]

\* model.fit run to its end: ws[k] are the weights the k-th epoch leaves.
RECURSIVE RunFit(_, _, _)
RunFit(m, f, ws) ==
    IF FitRunning(f) /\ ws # <<>>
    THEN RunFit([m EXCEPT !.model = Head(ws)],
                onEpochEnd(f, m.earlyStoppingPatience, ValLoss(Head(ws), f.X_validation)),
                Tail(ws))
    ELSE [m |-> m, f |-> f]

\* A whole train() call.
train(m, w0, ws, X_train, X_validation, epochs, batchSize) ==
    LET m1 == trainBegin(m, w0, X_train, epochs, batchSize)
        r == RunFit(m1, fitBegin(m1, X_train, X_validation), ws)
    IN trainEnd(r.m, r.f)

-----------------------------------------------------------------------------
(* EnsembleAutoencoder.                                                    *)

\* The state the constructor leaves.
NewEnsemble ==
    [inputSize |-> InputSize,
     models |-> [j \in 1..EnsembleSize |-> NewMLP],
     thresholds |-> <<>>,
     isTrained |-> FALSE]

\* The configuration train() gives member i (1-based) before training it.
Configure(m, i) ==
    IF i = 2 THEN [m EXCEPT !.dropoutRate = 30, !.learningRate = 80]
    ELSE IF i = 3 THEN [m EXCEPT !.encoderUnits = <<20, 10, 5>>,
                                 !.latentSize = 3,
                                 !.decoderUnits = <<5, 10, 20>>]
    ELSE m

\* The cap left out.
ModelEpochsUncapped(epochs) == epochs

\* Math.min(epochs, 30)
ModelEpochs(epochs) == IF epochs < EnsembleEpochCap THEN epochs ELSE EnsembleEpochCap

\* The votes of a sequence of member severities.
VoteCounts(severities) ==
    [normal |-> Cardinality({j \in 1..Len(severities) : severities[j] = "normal"}),
     warning |-> Cardinality({j \in 1..Len(severities) : severities[j] = "warning"}),
     critical |-> Cardinality({j \in 1..Len(severities) : severities[j] = "critical"})]

\* A strict majority asked for, instead of Math.ceil(numModels / 2) votes.
FinalSeverityStrictMajority(votes, numModels) ==
    IF 2 * votes.critical > numModels THEN "critical"
    ELSE IF 2 * votes.warning > numModels THEN "warning"
    ELSE IF 2 * (votes.warning + votes.critical) > numModels THEN "warning"
    ELSE "normal"

FinalSeverity(votes, numModels) ==
    IF votes.critical >= CeilHalf(numModels) THEN "critical"
    ELSE IF votes.warning >= CeilHalf(numModels) THEN "warning"
    ELSE IF votes.warning + votes.critical >= CeilHalf(numModels) THEN "warning"
    ELSE "normal"

Max3(a, b, c) ==
    IF a >= b /\ a >= c THEN a ELSE IF b >= c THEN b ELSE c

\* The record pushed at position i (1-based here) of the members' lists.
\* error is the sum of the members' errors and confidence the largest vote:
\* avgError and confidence in units of 1/numModels.
EnsembleAnomalyOf(allAnomalies, metadata, i) ==
    LET numModels == Len(allAnomalies)
        votes == VoteCounts([j \in 1..numModels |-> allAnomalies[j][i].severity])
        avgError == SumSeq([j \in 1..numModels |-> allAnomalies[j][i].error])
    IN IF metadata = NoMetadata
       THEN [index |-> i - 1,
             error |-> avgError,
             severity |-> FinalSeverity(votes, numModels),
             confidence |-> Max3(votes.normal, votes.warning, votes.critical),
             votes |-> votes,
             metadata |-> 0]
       ELSE [index |-> i - 1,
             error |-> avgError,
             severity |-> FinalSeverity(votes, numModels),
             confidence |-> Max3(votes.normal, votes.warning, votes.critical),
             votes |-> votes,
             metadata |-> metadata[i],
             featureContributions |-> allAnomalies[1][i].featureContributions]

\* EnsembleAutoencoder.detectAnomalies.  A member's error is thrown on; with
\* no members, allAnomalies[0] is undefined and its length a TypeError.
ensembleDetectAnomalies(e, X, metadata) ==
    LET numModels == Len(e.models)
        ensembleResults == [j \in 1..numModels |-> detectAnomalies(e.models[j], X, metadata)]
        failed == {j \in 1..numModels : ensembleResults[j].status = "error"}
    IN IF ~e.isTrained
       THEN [status |-> "error", message |-> "Ensemble not trained"]
       ELSE IF failed # {}
       THEN ensembleResults[CHOOSE j \in failed : \A k \in failed : j <= k]
       ELSE IF numModels = 0
       THEN [status |-> "error", message |-> "TypeError"]
       ELSE LET allAnomalies == [j \in 1..numModels |-> ensembleResults[j].anomalies]
                finalAnomalies == [i \in 1..Len(allAnomalies[1]) |->
                                      EnsembleAnomalyOf(allAnomalies, metadata, i)]
                levels == [normal |-> CountSeverity(finalAnomalies, "normal"),
                           warning |-> CountSeverity(finalAnomalies, "warning"),
                           critical |-> CountSeverity(finalAnomalies, "critical")]
            IN [status |-> "ok",
                anomalies |-> SortByError(finalAnomalies),
                severityLevels |-> levels,
                threshold |-> ensembleResults[1].threshold,
                totalSamples |-> Len(finalAnomalies),
                anomalyRate |-> [num |-> levels.warning + levels.critical,
                                 den |-> Len(finalAnomalies)],
                ensembleConfidence |->
                    [num |-> SumSeq([i \in 1..Len(finalAnomalies) |->
                                        finalAnomalies[i].confidence]),
                     den |-> numModels * Len(finalAnomalies)]]

\* EnsembleAutoencoder.saveWeights: the members save one after another, each
\* under the same two storage keys, up to the first member without a model,
\* whose 'No model to save' ends the call.
RECURSIVE SaveMembers(_, _, _)
SaveMembers(models, i, st) ==
    IF i > Len(models) THEN [status |-> "ok", store |-> st]
    ELSE IF models[i].model = "null" THEN [status |-> "error", store |-> st]
    ELSE SaveMembers(models, i + 1, saveWeights(models[i], st))

ensembleSaveWeights(e, st) == SaveMembers(e.models, 1, st)

\* EnsembleAutoencoder.loadWeights: every member loads from the same keys.
ensembleLoadWeights(e, st) ==
    IF st.model = "none" /\ e.models # <<>>
    THEN [status |-> "error", ens |-> e]
    ELSE [status |-> "ok",
          ens |-> [e EXCEPT !.models = [j \in 1..Len(e.models) |->
                                           loadWeights(e.models[j], st)]]]

\* EnsembleAutoencoder.dispose
ensembleDispose(e) == [e EXCEPT !.models = <<>>, !.thresholds = <<>>]

-----------------------------------------------------------------------------
(* Inputs.                                                                 *)

ZeroRow == Row(0, 0, 0, 0, 0, 0)
RowA == Row(2, 0, 0, 0, 0, 0)
RowC == Row(5, 3, 0, 0, 0, 0)
RowD == Row(2, 1, 0, 0, 0, 0)
RowE == Row(2, 1, 1, 0, 0, 0)
SmallRows == {RowA, RowC, RowD, RowE}

\* Rows on both sides of every level detectMajorMarketEvent compares with.
RichRows ==
    {Row(p, v, a, s, g, m) :
        p \in {4, 5}, v \in {2, 3}, a \in {3, 4}, s \in {2, 3}, g \in {0, 4}, m \in {0, 4}}

SeqsUpTo(S, n) == UNION {[1..k -> S] : k \in 1..n}

DetectMatrices == SeqsUpTo(SmallRows, MaxRows) \cup {<<r>> : r \in RichRows}

TrainMatrices ==
    { <<RowD>>, <<ZeroRow, ZeroRow>>, <<RowA, RowA>>, <<ZeroRow, RowA, RowC>>,
      <<ZeroRow, ZeroRow, ZeroRow, RowC>> }

ValidationMatrices == { <<RowA>> }

\* The metadata the app passes: one entry per row, here the row's timestamp.
MetadataFor(X) == [i \in 1..Len(X) |-> 1000 + i]

-----------------------------------------------------------------------------
(* The actions of one MLPAutoencoder used by one caller.                   *)

NoRet == [op |-> "none"]

otherVars == <<ens, app, loader, fn, store>>

\* Every call is made by one caller, which makes its next call after taking
\* the value the last one returned (Resume).
TrainBegin(w0, X_train, X_validation, epochs, batchSize) ==
    /\ fit.pc = "idle"
    /\ ret = NoRet
    /\ mlp' = trainBegin(mlp, w0, X_train, epochs, batchSize)
    /\ fit' = fitBegin(mlp', X_train, X_validation)
    /\ UNCHANGED ret
    /\ UNCHANGED otherVars

\* One mini-batch of the running epoch: a gradient step.
BatchEnd ==
    /\ FitRunning(fit)
    /\ fit.batch < fit.batches
    /\ fit' = [fit EXCEPT !.batch = @ + 1]
    /\ UNCHANGED <<mlp, ret>>
    /\ UNCHANGED otherVars

\* The end of an epoch of model.fit, after its last mini-batch: the optimiser
\* has left the weights w, the validation loss is computed and onEpochEnd runs.
EpochEnd(w) ==
    /\ FitRunning(fit)
    /\ fit.batch = fit.batches
    /\ mlp' = [mlp EXCEPT !.model = w]
    /\ fit' = onEpochEnd(fit, mlp.earlyStoppingPatience, ValLoss(w, fit.X_validation))
    /\ UNCHANGED ret
    /\ UNCHANGED otherVars

TrainFinish ==
    /\ FitOver(fit)
    /\ mlp' = trainEnd(mlp, fit)
    /\ fit' = IdleFit
    /\ ret' = [op |-> "train", epochs |-> fit.epochs, epochsRun |-> fit.epoch,
               val_loss |-> fit.val_loss]
    /\ UNCHANGED otherVars

Detect(X, metadata) ==
    /\ fit.pc = "idle"
    /\ ret = NoRet
    /\ ret' = [op |-> "detectAnomalies", X |-> X, metadata |-> metadata,
               out |-> detectAnomalies(mlp, X, metadata)]
    /\ UNCHANGED <<mlp, fit>>
    /\ UNCHANGED otherVars

Dispose ==
    /\ fit.pc = "idle"
    /\ ret = NoRet
    /\ mlp' = dispose(mlp)
    /\ ret' = [op |-> "dispose"]
    /\ UNCHANGED fit
    /\ UNCHANGED otherVars

Resume ==
    /\ ret # NoRet
    /\ ret' = NoRet
    /\ UNCHANGED <<mlp, fit>>
    /\ UNCHANGED otherVars

Unused == [k |-> "unused"]

Init ==
    /\ mlp = NewMLP
    /\ fit = IdleFit
    /\ ret = NoRet
    /\ ens = Unused
    /\ app = Unused
    /\ loader = Unused
    /\ fn = Unused /\ store = Unused

Next ==
    \/ \E w0 \in Weights, X \in TrainMatrices, Xv \in ValidationMatrices,
          e \in 1..SmallEpochs, bs \in {0, 32} :
          TrainBegin(w0, X, Xv, e, bs)
    \/ BatchEnd
    \/ \E w \in Weights : EpochEnd(w)
    \/ TrainFinish
    \/ \E X \in DetectMatrices, md \in BOOLEAN :
          Detect(X, IF md THEN MetadataFor(X) ELSE NoMetadata)
    \/ Dispose
    \/ Resume

Spec == Init /\ [][Next]_vars

\* The same instance with training runs of up to MaxEpochs epochs on one
\* training matrix; the caller goes on to a further run only after a run of
\* at most SmallEpochs epochs.
LongTrainMatrix == <<ZeroRow, RowA, RowC>>

ResumeShort == ret.op = "train" /\ ret.epochsRun <= SmallEpochs /\ Resume

NextTrain ==
    \/ \E w0 \in Weights, Xv \in ValidationMatrices, e \in 1..MaxEpochs :
          TrainBegin(w0, LongTrainMatrix, Xv, e, 2)
    \/ BatchEnd
    \/ \E w \in Weights : EpochEnd(w)
    \/ TrainFinish
    \/ ResumeShort

SpecTrain == Init /\ [][NextTrain]_vars

-----------------------------------------------------------------------------
(* One MLPAutoencoder and the browser storage, used by one caller that     *)
(* awaits each call: train() on valid and on invalid input, saveWeights(), *)
(* loadWeights() and dispose().  A train() here is a whole call.           *)

\* A matrix whose rows are one column short of inputSize.
NarrowMatrix == <<SubSeq(RowA, 1, InputSize - 1)>>

ValidShape(m, X) == \A i \in 1..Len(X) : Len(X[i]) = m.inputSize

PersistTrainMatrices == {<<RowD>>, <<ZeroRow, RowA, RowC>>}

InitPersist ==
    /\ mlp = NewMLP
    /\ store = EmptyStore
    /\ fit = IdleFit
    /\ ret = NoRet
    /\ ens = Unused /\ app = Unused /\ loader = Unused /\ fn = Unused

persistOthers == <<fit, ens, app, loader, fn>>

\* train(): model.fit rejects a matrix whose width is not the input width of
\* the model, after buildModel and the assignments of lines 116-118; the
\* catch of line 173 throws on.
PersistTrain(w0, ws, X_train, X_validation, epochs, batchSize) ==
    /\ ret = NoRet
    /\ Len(ws) = epochs
    /\ IF ValidShape(mlp, X_train) /\ ValidShape(mlp, X_validation)
       THEN /\ mlp' = train(mlp, w0, ws, X_train, X_validation, epochs, batchSize)
            /\ ret' = [op |-> "train", status |-> "ok"]
       ELSE /\ mlp' = trainBegin(mlp, w0, X_train, epochs, batchSize)
            /\ ret' = [op |-> "train", status |-> "error"]
    /\ UNCHANGED store
    /\ UNCHANGED persistOthers

\* saveWeights(): 'No model to save' without a model; else model.save and
\* localStorage.setItem.
PersistSave ==
    /\ ret = NoRet
    /\ IF mlp.model = "null"
       THEN /\ ret' = [op |-> "saveWeights", status |-> "error"]
            /\ UNCHANGED store
       ELSE /\ ret' = [op |-> "saveWeights", status |-> "ok"]
            /\ store' = saveWeights(mlp, store)
    /\ UNCHANGED mlp
    /\ UNCHANGED persistOthers

\* saveWeights() when model.save rejects: nothing is stored.
PersistSaveFail ==
    /\ ret = NoRet
    /\ mlp.model # "null"
    /\ ret' = [op |-> "saveWeights", status |-> "error"]
    /\ UNCHANGED <<mlp, store>>
    /\ UNCHANGED persistOthers

\* loadWeights(): tf.loadLayersModel rejects when no model is stored.
PersistLoad ==
    /\ ret = NoRet
    /\ IF store.model = "none"
       THEN /\ ret' = [op |-> "loadWeights", status |-> "error"]
            /\ UNCHANGED mlp
       ELSE /\ ret' = [op |-> "loadWeights", status |-> "ok"]
            /\ mlp' = loadWeights(mlp, store)
    /\ UNCHANGED store
    /\ UNCHANGED persistOthers

\* buildModel runs only when the instance has no model.
InitialWeights == IF mlp.model = "null" THEN Weights ELSE {mlp.model}

NextPersist ==
    \/ \E w0 \in InitialWeights, ws \in SeqsUpTo(Weights, SmallEpochs),
          X \in PersistTrainMatrices, Xv \in ValidationMatrices :
          PersistTrain(w0, ws, X, Xv, Len(ws), DefaultBatchSize)
    \/ \E w0 \in InitialWeights, e \in 1..SmallEpochs, bs \in {0, 32} :
          \/ PersistTrain(w0, [k \in 1..e |-> w0], NarrowMatrix, <<RowA>>, e, bs)
          \/ PersistTrain(w0, [k \in 1..e |-> w0], <<RowD>>, NarrowMatrix, e, bs)
    \/ PersistSave
    \/ PersistSaveFail
    \/ PersistLoad
    \/ Dispose
    \/ Resume

SpecPersist == InitPersist /\ [][NextPersist]_vars

-----------------------------------------------------------------------------
(* One EnsembleAutoencoder used by one caller.  fit holds the locals of    *)
(* the train() call in progress: the loop index i and the arguments.       *)

EnsembleIdle == [pc |-> "idle"]

EnsembleDetectMatrices == SeqsUpTo({RowA, RowC, RowD}, MaxRows)

EnsembleTrainMatrices == {<<ZeroRow, RowA, RowC>>, <<ZeroRow, ZeroRow, ZeroRow, RowC>>}

InitEnsemble ==
    /\ ens = NewEnsemble
    /\ fit = EnsembleIdle
    /\ ret = NoRet
    /\ mlp = Unused /\ app = Unused /\ loader = Unused /\ fn = Unused /\ store = Unused

EnsembleTrainBegin(X_train, X_validation, epochs, batchSize) ==
    /\ fit.pc = "idle"
    /\ ret = NoRet
    /\ fit' = [pc |-> "train", i |-> 1, X_train |-> X_train,
               X_validation |-> X_validation, epochs |-> epochs,
               batchSize |-> batchSize]
    /\ UNCHANGED <<ens, ret, mlp, app, loader, fn, store>>

\* One turn of the loop: member i is configured and trained.
EnsembleTrainMember(w0, ws) ==
    /\ fit.pc = "train"
    /\ fit.i <= Len(ens.models)
    /\ Len(ws) = ModelEpochs(fit.epochs)
    /\ ens' = [ens EXCEPT !.models[fit.i] =
                  train(Configure(@, fit.i), w0, ws, fit.X_train, fit.X_validation,
                        ModelEpochs(fit.epochs), fit.batchSize)]
    /\ fit' = [fit EXCEPT !.i = @ + 1]
    /\ UNCHANGED <<ret, mlp, app, loader, fn, store>>

EnsembleTrainFinish ==
    /\ fit.pc = "train"
    /\ fit.i > Len(ens.models)
    /\ ens' = [ens EXCEPT !.isTrained = TRUE]
    /\ fit' = EnsembleIdle
    /\ ret' = [op |-> "train"]
    /\ UNCHANGED <<mlp, app, loader, fn, store>>

EnsembleDetect(X, metadata) ==
    /\ fit.pc = "idle"
    /\ ret = NoRet
    /\ ret' = [op |-> "detectAnomalies", X |-> X, metadata |-> metadata,
               out |-> ensembleDetectAnomalies(ens, X, metadata)]
    /\ UNCHANGED <<ens, fit, mlp, app, loader, fn, store>>

EnsembleDispose ==
    /\ fit.pc = "idle"
    /\ ret = NoRet
    /\ ens' = ensembleDispose(ens)
    /\ ret' = [op |-> "dispose"]
    /\ UNCHANGED <<fit, mlp, app, loader, fn, store>>

NextEnsemble ==
    \/ \E X \in EnsembleTrainMatrices, Xv \in ValidationMatrices, e \in 1..SmallEpochs :
          EnsembleTrainBegin(X, Xv, e, DefaultBatchSize)
    \/ \E w0 \in Weights, ws \in SeqsUpTo(Weights, SmallEpochs) : EnsembleTrainMember(w0, ws)
    \/ EnsembleTrainFinish
    \/ \E X \in EnsembleDetectMatrices, md \in BOOLEAN :
          EnsembleDetect(X, IF md THEN MetadataFor(X) ELSE NoMetadata)
    \/ EnsembleDispose
    \/ Resume

SpecEnsemble == InitEnsemble /\ [][NextEnsemble]_vars

-----------------------------------------------------------------------------
(* One EnsembleAutoencoder and the browser storage, used by one caller     *)
(* that awaits each call.  A train() here is a whole call that succeeds:   *)
(* ws[j] are the weights the one epoch of member j leaves.                 *)

ensembleTrain(e, ws, X_train, X_validation, epochs, batchSize) ==
    [e EXCEPT !.models = [j \in 1..Len(e.models) |->
                             train(Configure(e.models[j], j), ws[j], <<ws[j]>>, X_train,
                                   X_validation, ModelEpochs(epochs), batchSize)],
              !.isTrained = TRUE]

InitEnsembleStore ==
    /\ ens = NewEnsemble
    /\ fit = EnsembleIdle
    /\ ret = NoRet
    /\ store = EmptyStore
    /\ mlp = Unused /\ app = Unused /\ loader = Unused /\ fn = Unused

EnsembleTrain(ws, X_train, X_validation, epochs, batchSize) ==
    /\ fit.pc = "idle"
    /\ ret = NoRet
    /\ ens' = ensembleTrain(ens, ws, X_train, X_validation, epochs, batchSize)
    /\ ret' = [op |-> "train", status |-> "ok"]
    /\ UNCHANGED <<fit, store, mlp, app, loader, fn>>

EnsembleSave ==
    /\ fit.pc = "idle"
    /\ ret = NoRet
    /\ store' = ensembleSaveWeights(ens, store).store
    /\ ret' = [op |-> "saveWeights", status |-> ensembleSaveWeights(ens, store).status]
    /\ UNCHANGED <<ens, fit, mlp, app, loader, fn>>

EnsembleLoad ==
    /\ fit.pc = "idle"
    /\ ret = NoRet
    /\ ens' = ensembleLoadWeights(ens, store).ens
    /\ ret' = [op |-> "loadWeights", status |-> ensembleLoadWeights(ens, store).status]
    /\ UNCHANGED <<fit, store, mlp, app, loader, fn>>

NextEnsembleStore ==
    \/ \E ws \in [1..EnsembleSize -> Weights], Xv \in ValidationMatrices :
          EnsembleTrain(ws, <<ZeroRow, RowA, RowC>>, Xv, 1, DefaultBatchSize)
    \/ EnsembleSave
    \/ EnsembleLoad
    \/ \E X \in {<<RowA>>, <<RowC, RowD>>}, md \in BOOLEAN :
          EnsembleDetect(X, IF md THEN MetadataFor(X) ELSE NoMetadata)
    \/ EnsembleDispose
    \/ Resume

SpecEnsembleStore == InitEnsembleStore /\ [][NextEnsembleStore]_vars

-----------------------------------------------------------------------------
(* EnsembleAutoencoder.train step by step, on an ensemble that keeps its   *)
(* three members, called by one caller that awaits each call.  fit holds   *)
(* the locals of the call: the loop index i (1-based), the arguments and,  *)
(* in member, the locals of the member's train() call being awaited.  The  *)
(* optimiser is taken to leave weights of the kind the member has, so the  *)
(* validation loss of a member stays at one value and a member given more  *)
(* than patience + 1 epochs stops early.  The awaited call may reject, as  *)
(* model.fit does when the backend fails.  calls counts the calls made.    *)

EnsembleTrainIdle ==
    [pc |-> "idle", i |-> 0, X_train |-> <<>>, X_validation |-> <<>>, epochs |-> 0,
     batchSize |-> 0, member |-> IdleFit, calls |-> 0]

EnsembleEpochs ==
    {SmallEpochs, EnsembleEpochCap, EnsembleEpochCap + 1, EnsembleDefaultEpochs}

InitEnsembleTrain ==
    /\ ens = NewEnsemble
    /\ fit = EnsembleTrainIdle
    /\ ret = NoRet
    /\ mlp = Unused /\ app = Unused /\ loader = Unused /\ fn = Unused /\ store = Unused

\* The call, up to the first test of the loop.
EnsembleTrainCall(X_train, X_validation, epochs, batchSize) ==
    /\ fit.pc = "idle"
    /\ ret = NoRet
    /\ fit.calls < MaxCalls
    /\ fit' = [EnsembleTrainIdle EXCEPT !.pc = "loop", !.i = 1, !.X_train = X_train,
                                        !.X_validation = X_validation,
                                        !.epochs = epochs, !.batchSize = batchSize,
                                        !.calls = fit.calls + 1]
    /\ UNCHANGED <<ens, ret, mlp, app, loader, fn, store>>

\* The loop body up to the await: member i is configured and its train()
\* runs up to the call of model.fit.
EnsembleMemberBegin(w0) ==
    /\ fit.pc = "loop"
    /\ fit.i <= Len(ens.models)
    /\ ens' = [ens EXCEPT !.models[fit.i] =
                  trainBegin(Configure(@, fit.i), w0, fit.X_train,
                             ModelEpochs(fit.epochs), fit.batchSize)]
    /\ fit' = [fit EXCEPT !.pc = "fit",
                          !.member = fitBegin(ens'.models[fit.i], fit.X_train,
                                              fit.X_validation)]
    /\ UNCHANGED <<ret, mlp, app, loader, fn, store>>

\* An epoch of member i ends.
EnsembleMemberEpochEnd ==
    /\ fit.pc = "fit"
    /\ FitRunning(fit.member)
    /\ fit' = [fit EXCEPT !.member =
                  onEpochEnd(@, ens.models[fit.i].earlyStoppingPatience,
                             ValLoss(ens.models[fit.i].model, fit.X_validation))]
    /\ UNCHANGED <<ens, ret, mlp, app, loader, fn, store>>

\* model.fit of member i resolves: the member calibrates its threshold and
\* its train() resolves; the loop index moves on.
EnsembleMemberFinish ==
    /\ fit.pc = "fit"
    /\ FitOver(fit.member)
    /\ ens' = [ens EXCEPT !.models[fit.i] = trainEnd(@, fit.member)]
    /\ fit' = [fit EXCEPT !.pc = "loop", !.i = @ + 1, !.member = IdleFit]
    /\ UNCHANGED <<ret, mlp, app, loader, fn, store>>

\* model.fit of member i rejects: the member's train() throws 'Training
\* failed', which the loop does not catch.
EnsembleMemberFail ==
    /\ fit.pc = "fit"
    /\ fit' = [EnsembleTrainIdle EXCEPT !.calls = fit.calls]
    /\ ret' = [op |-> "train", status |-> "error", epochs |-> fit.epochs, i |-> fit.i]
    /\ UNCHANGED <<ens, mlp, app, loader, fn, store>>

\* After the loop.
EnsembleTrainReturn ==
    /\ fit.pc = "loop"
    /\ fit.i > Len(ens.models)
    /\ ens' = [ens EXCEPT !.isTrained = TRUE]
    /\ fit' = [EnsembleTrainIdle EXCEPT !.calls = fit.calls]
    /\ ret' = [op |-> "train", status |-> "ok", epochs |-> fit.epochs, i |-> fit.i]
    /\ UNCHANGED <<mlp, app, loader, fn, store>>

NextEnsembleTrain ==
    \/ \E X \in EnsembleTrainMatrices, Xv \in ValidationMatrices, e \in EnsembleEpochs :
          EnsembleTrainCall(X, Xv, e, DefaultBatchSize)
    \/ \E w0 \in Weights : EnsembleMemberBegin(w0)
    \/ EnsembleMemberEpochEnd
    \/ EnsembleMemberFinish
    \/ EnsembleMemberFail
    \/ EnsembleTrainReturn
    \/ Resume

SpecEnsembleTrain == InitEnsembleTrain /\ [][NextEnsembleTrain]_vars

-----------------------------------------------------------------------------
(* JS numbers of the data loader: a rational n/d in lowest terms with      *)
(* d > 0, +Infinity, -Infinity or NaN.  A zero is +0.                      *)

RECURSIVE GCD(_, _)
GCD(a, b) == IF b = 0 THEN a ELSE GCD(b, a % b)

Ratio(n, d) ==
    LET g == GCD(Abs(n), d)
    IN [k |-> "fin", n |-> n \div g, d |-> d \div g]
RNum(n) == [k |-> "fin", n |-> n, d |-> 1]
PosInfinity == [k |-> "inf", n |-> 1, d |-> 1]
NegInfinity == [k |-> "inf", n |-> -1, d |-> 1]
NaN == [k |-> "nan", n |-> 0, d |-> 1]

\* Number.isFinite
IsFinite(x) == x.k = "fin"
IsZeroNumber(x) == x.k = "fin" /\ x.n = 0
SignOf(x) == IF x.n > 0 THEN 1 ELSE IF x.n < 0 THEN -1 ELSE 0
Signed(sign) == IF sign > 0 THEN PosInfinity ELSE NegInfinity

RNeg(x) == [x EXCEPT !.n = -@]
RAbs(x) == [x EXCEPT !.n = Abs(@)]

RAdd(x, y) ==
    IF x.k = "nan" \/ y.k = "nan" THEN NaN
    ELSE IF x.k = "inf" /\ y.k = "inf" THEN (IF x.n = y.n THEN x ELSE NaN)
    ELSE IF x.k = "inf" THEN x
    ELSE IF y.k = "inf" THEN y
    ELSE LET g == GCD(x.d, y.d)
         IN Ratio(x.n * (y.d \div g) + y.n * (x.d \div g), (x.d \div g) * y.d)

RSub(x, y) == RAdd(x, RNeg(y))

RMul(x, y) ==
    IF x.k = "nan" \/ y.k = "nan" THEN NaN
    ELSE IF x.k = "inf" \/ y.k = "inf"
         THEN (IF x.n = 0 \/ y.n = 0 THEN NaN ELSE Signed(SignOf(x) * SignOf(y)))
    ELSE LET g1 == GCD(Abs(x.n), y.d)
             g2 == GCD(Abs(y.n), x.d)
         IN Ratio((x.n \div g1) * (y.n \div g2), (x.d \div g2) * (y.d \div g1))

RDiv(x, y) ==
    IF x.k = "nan" \/ y.k = "nan" THEN NaN
    ELSE IF x.k = "inf" THEN (IF y.k = "inf" THEN NaN
                              ELSE Signed(SignOf(x) * (IF y.n < 0 THEN -1 ELSE 1)))
    ELSE IF y.k = "inf" THEN RNum(0)
    ELSE IF y.n = 0 THEN (IF x.n = 0 THEN NaN ELSE Signed(SignOf(x)))
    ELSE RMul(x, [k |-> "fin", n |-> SignOf(y) * y.d, d |-> Abs(y.n)])

\* x < y; false when either is NaN.
RLess(x, y) ==
    /\ x.k # "nan" /\ y.k # "nan"
    /\ IF x.k = "inf" THEN x.n < 0 /\ ~(y.k = "inf" /\ y.n < 0)
       ELSE IF y.k = "inf" THEN y.n > 0
       ELSE x.n * y.d < y.n * x.d

\* Math.max and Math.min of two numbers, and of the elements of an array.
RMax(x, y) == IF x.k = "nan" \/ y.k = "nan" THEN NaN ELSE IF RLess(x, y) THEN y ELSE x
RMin(x, y) == IF x.k = "nan" \/ y.k = "nan" THEN NaN ELSE IF RLess(y, x) THEN y ELSE x

RECURSIVE RMaxSeq(_)
RMaxSeq(s) == IF s = <<>> THEN NegInfinity ELSE RMax(Head(s), RMaxSeq(Tail(s)))

RECURSIVE RMinSeq(_)
RMinSeq(s) == IF s = <<>> THEN PosInfinity ELSE RMin(Head(s), RMinSeq(Tail(s)))

RECURSIVE RSumSeq(_)
RSumSeq(s) == IF s = <<>> THEN RNum(0) ELSE RAdd(Head(s), RSumSeq(Tail(s)))

\* x || y
OrElse(x, y) == IF x.k = "nan" \/ IsZeroNumber(x) THEN y ELSE x

\* Math.tanh and Math.log(x + 1) have no rational values; they are held by
\* rational functions with the same sign, zero, monotonicity and values at
\* the infinities and NaN: x/(1 + |x|) and, for x >= 0, 2x/(2 + x).
Tanh(x) ==
    IF x.k = "nan" THEN NaN
    ELSE IF x.k = "inf" THEN RNum(SignOf(x))
    ELSE RDiv(x, RAdd(RNum(1), RAbs(x)))

Log1p(x) ==
    IF x.k = "nan" THEN NaN
    ELSE IF x.k = "inf" THEN x
    ELSE RDiv(RMul(RNum(2), x), RAdd(RNum(2), x))

\* The signed square root of a finite number that is not the square of a
\* rational: the number whose square is |n|/d and whose sign is that of n.
Root(n, d) == [k |-> "root", n |-> n, d |-> d]

-----------------------------------------------------------------------------
(* BinanceDataLoader.                                                      *)

Percent(x) == RMul(x, RNum(100))

\* ((a - b) / b) * 100
PercentChange(a, b) == Percent(RDiv(RSub(a, b), b))

\* The start of the slice ignored: the whole history up to end.
SliceFromStart(s, start, end) ==
    SubSeq(s, 1, IF end < Len(s) THEN end ELSE Len(s))

\* array.slice(start, end) for 0-based start and end.
Slice(s, start, end) ==
    SubSeq(s, start + 1, IF end < Len(s) THEN end ELSE Len(s))

calculateFundingRateProxy(priceChange, volumeChange, volatility) ==
    LET momentumFactor == Tanh(RDiv(priceChange, RNum(10)))
        volumeFactor == Tanh(RDiv(volumeChange, RNum(50)))
        volatilityFactor == Tanh(RDiv(volatility, RNum(5)))
    IN RMul(RAdd(RAdd(RMul(momentumFactor, Ratio(1, 2)),
                      RMul(volumeFactor, Ratio(3, 10))),
                 RMul(volatilityFactor, Ratio(1, 5))),
            Ratio(1, 100))

calculateOpenInterestProxy(volume, priceChange, trades) ==
    LET volumeFactor == RDiv(Log1p(volume), RNum(10))
        tradeIntensity == RDiv(trades, RNum(1000))
        priceMomentum == RDiv(RAbs(priceChange), RNum(10))
    IN RAdd(RAdd(RMul(volumeFactor, Ratio(2, 5)),
                 RMul(tradeIntensity, Ratio(3, 10))),
            RMul(priceMomentum, Ratio(3, 10)))

\* The gains and losses summed by calculateRSI.
RECURSIVE Gains(_)
Gains(data) ==
    IF Len(data) < 2 THEN RNum(0)
    ELSE LET change == RSub(data[Len(data)].close, data[Len(data) - 1].close)
             rest == Gains(SubSeq(data, 1, Len(data) - 1))
         IN IF RLess(RNum(0), change) THEN RAdd(rest, change) ELSE rest

RECURSIVE Losses(_)
Losses(data) ==
    IF Len(data) < 2 THEN RNum(0)
    ELSE LET change == RSub(data[Len(data)].close, data[Len(data) - 1].close)
             rest == Losses(SubSeq(data, 1, Len(data) - 1))
         IN IF RLess(RNum(0), change) THEN rest ELSE RSub(rest, change)

\* The gains checked before the losses: a flat window gives 0.
calculateRSIGainsFirst(data) ==
    IF Len(data) < MinRsiPoints THEN RNum(50)
    ELSE IF IsZeroNumber(Gains(data)) THEN RNum(0)
    ELSE IF IsZeroNumber(Losses(data)) THEN RNum(100)
    ELSE RSub(RNum(100),
              RDiv(RNum(100), RAdd(RNum(1), RDiv(Gains(data), Losses(data)))))

\* The guard on the length left out: a window without a change has no
\* losses.
calculateRSINoGuard(data) ==
    IF IsZeroNumber(Losses(data)) THEN RNum(100)
    ELSE IF IsZeroNumber(Gains(data)) THEN RNum(0)
    ELSE RSub(RNum(100),
              RDiv(RNum(100), RAdd(RNum(1), RDiv(Gains(data), Losses(data)))))

calculateRSI(data) ==
    IF Len(data) < MinRsiPoints THEN RNum(50)
    ELSE IF IsZeroNumber(Losses(data)) THEN RNum(100)
    ELSE IF IsZeroNumber(Gains(data)) THEN RNum(0)
    ELSE RSub(RNum(100),
              RDiv(RNum(100), RAdd(RNum(1), RDiv(Gains(data), Losses(data)))))

\* x is the square of a rational.
IsSquare(x) ==
    /\ x.k = "fin" /\ x.n >= 0
    /\ \E a \in 0..x.n : a * a = x.n
    /\ \E b \in 1..x.d : b * b = x.d

SqrtOfSquare(x) ==
    Ratio(CHOOSE a \in 0..x.n : a * a = x.n, CHOOSE b \in 1..x.d : b * b = x.d)

\* For finite closes.  With std the root of variance: the price is at or
\* below sma - 2*std iff it is below sma and (sma - price)^2 >= 4*variance.
calculateBollingerPosition(data, currentPrice) ==
    IF Len(data) < MinBollingerPoints THEN RNum(0)
    ELSE LET n == RNum(Len(data))
             sma == RDiv(RSumSeq([i \in 1..Len(data) |-> data[i].close]), n)
             variance == RDiv(RSumSeq([i \in 1..Len(data) |->
                                 RMul(RSub(data[i].close, sma), RSub(data[i].close, sma))]), n)
             dev == RSub(currentPrice, sma)
             devSquared == RMul(dev, dev)
             fourVariance == RMul(RNum(4), variance)
         IN IF ~RLess(RNum(0), dev) /\ ~RLess(devSquared, fourVariance) THEN RNum(-1)
            ELSE IF ~RLess(dev, RNum(0)) /\ ~RLess(devSquared, fourVariance) THEN RNum(1)
            ELSE IF IsSquare(variance)
                 THEN RDiv(dev, RMul(RNum(2), SqrtOfSquare(variance)))
            ELSE LET q == RDiv(devSquared, fourVariance)
                 IN Root(SignOf(dev) * q.n, q.d)

\* Math.abs(priceChange) > volatility * 2, where volatility is
\* sqrt(meanSquare) * 100: compared by the squares.
detectMarketRegime(data) ==
    IF Len(data) < MinRegimePoints THEN RNum(0)
    ELSE LET closes == [i \in 1..Len(data) |-> data[i].close]
             firstPrice == closes[1]
             lastPrice == closes[Len(closes)]
             priceChange == Percent(RDiv(RSub(lastPrice, firstPrice), firstPrice))
             returns == [i \in 1..(Len(closes) - 1) |->
                            RDiv(RSub(closes[i + 1], closes[i]), closes[i])]
             meanSquare == RDiv(RSumSeq([i \in 1..Len(returns) |->
                                   RMul(returns[i], returns[i])]),
                                RNum(Len(returns)))
         IN IF RLess(RMul(RNum(40000), meanSquare), RMul(priceChange, priceChange))
            THEN (IF RLess(RNum(0), priceChange) THEN RNum(1) ELSE RNum(-1))
            ELSE RNum(0)

\* The data point processKlineData pushes for klineData[i] (0-based i, the
\* length of processedData so far).
DataPoint(klineData, processedData) ==
    LET i == Len(processedData)
        kline == klineData[i + 1]
        open == kline.open
        high == kline.high
        low == kline.low
        close == kline.close
        volume == kline.volume
        prev(back) == processedData[i + 1 - back]
        priceChange == IF i > 0 THEN PercentChange(close, prev(1).close) ELSE RNum(0)
        volumeChange == IF i > 0 THEN PercentChange(volume, prev(1).volume) ELSE RNum(0)
        volatility == IF RLess(low, high)
                      THEN Percent(RDiv(RSub(high, low), close)) ELSE RNum(0)
        priceAcceleration ==
            IF i > 1 THEN RSub(priceChange, PercentChange(prev(1).close, prev(2).close))
            ELSE RNum(0)
        volumeSpike ==
            IF i > 0 THEN RMax(RNum(0), RSub(volumeChange, RNum(VolumeSpikeOffset)))
            ELSE RNum(0)
        \* processedData[i-1]?.close is undefined for i = 0: open - undefined is
        \* NaN, and undefined || open is open.
        priceGap ==
            IF i > 0
            THEN Percent(RDiv(RAbs(OrElse(RSub(open, prev(1).close), open)),
                              OrElse(prev(1).close, open)))
            ELSE Percent(RDiv(RAbs(open), open))
        priceMomentum == IF i > 2 THEN PercentChange(close, prev(3).close) ELSE RNum(0)
        volumeMomentum == IF i > 2 THEN PercentChange(volume, prev(3).volume) ELSE RNum(0)
        lower(window) == IF i - window > 0 THEN i - window ELSE 0
    IN [timestamp |-> kline.timestamp,
        datetime |-> kline.timestamp,
        open |-> open, high |-> high, low |-> low, close |-> close,
        volume |-> volume,
        quoteVolume |-> kline.quoteVolume,
        trades |-> kline.trades,
        priceChange |-> priceChange,
        volumeChange |-> volumeChange,
        volatility |-> volatility,
        priceAcceleration |-> priceAcceleration,
        volumeSpike |-> volumeSpike,
        priceGap |-> priceGap,
        priceMomentum |-> priceMomentum,
        volumeMomentum |-> volumeMomentum,
        rsi |-> calculateRSI(Slice(processedData, lower(RsiWindow), i + 1)),
        bollingerPosition |->
            calculateBollingerPosition(Slice(processedData, lower(BollingerWindow), i + 1),
                                       close),
        marketRegime |-> detectMarketRegime(Slice(processedData, lower(RegimeWindow), i + 1)),
        fundingRateProxy |-> calculateFundingRateProxy(priceChange, volumeChange, volatility),
        openInterestProxy |-> calculateOpenInterestProxy(volume, priceChange, kline.trades)]

RECURSIVE BuildProcessed(_, _)
BuildProcessed(klineData, processedData) ==
    IF Len(processedData) = Len(klineData) THEN processedData
    ELSE BuildProcessed(klineData, Append(processedData, DataPoint(klineData, processedData)))

processKlineData(klineData) == BuildProcessed(klineData, <<>>)

\* null for a field that otherwise holds an array; the loader's guards treat
\* null and the empty array alike.
NoData == <<>>

\* The state the constructor leaves; minMaxValues {} is the empty function.
NewLoader ==
    [rawData |-> NoData,
     processedData |-> NoData,
     normalizedData |-> NoData,
     minMaxValues |-> <<>>,
     maxApiLimit |-> MaxApiLimit,
     batchSize |-> BatchSize,
     startDate |-> Null,
     endDate |-> Null,
     lookbackDays |-> LookbackDays,
     interval |-> "1h",
     limit |-> DefaultLimit,
     trainPercentage |-> TrainPercentage]

FeatureValues(data, feature) == [i \in 1..Len(data) |-> data[i][feature]]

MinMaxOf(data) ==
    [feature \in {FeatureNames[f] : f \in 1..Len(FeatureNames)} |->
        [min |-> RMinSeq(FeatureValues(data, feature)),
         max |-> RMaxSeq(FeatureValues(data, feature))]]

normalizeValue(minMaxValues, value, feature) ==
    LET min == minMaxValues[feature].min
        max == minMaxValues[feature].max
        range == RSub(max, min)
    IN IF RLess(RNum(0), range) THEN RDiv(RSub(value, min), range) ELSE RNum(0)

denormalizeValue(minMaxValues, normalizedValue, feature) ==
    LET min == minMaxValues[feature].min
        max == minMaxValues[feature].max
        range == RSub(max, min)
    IN RAdd(RMul(normalizedValue, range), min)

\* The features of a point in the order of the feature list.
FeatureVector(point) == [f \in 1..Len(FeatureNames) |-> point[FeatureNames[f]]]

NormalizedPoint(minMaxValues, dataPoint) ==
    LET n(feature) == normalizeValue(minMaxValues, dataPoint[feature], feature)
    IN [timestamp |-> dataPoint.timestamp,
        datetime |-> dataPoint.datetime,
        priceChange |-> n("priceChange"),
        volume |-> n("volume"),
        fundingRateProxy |-> n("fundingRateProxy"),
        openInterestProxy |-> n("openInterestProxy"),
        priceAcceleration |-> n("priceAcceleration"),
        volumeSpike |-> n("volumeSpike"),
        priceGap |-> n("priceGap"),
        priceMomentum |-> n("priceMomentum"),
        volumeMomentum |-> n("volumeMomentum"),
        rsi |-> n("rsi"),
        bollingerPosition |-> n("bollingerPosition"),
        marketRegime |-> n("marketRegime"),
        original |-> FeatureVector(dataPoint)]

\* !data || data.length === 0
Empty(data) == data = NoData

\* normalizeData on a loader that has raw data.
normalizeData(l) ==
    [l EXCEPT !.processedData = l.rawData,
              !.minMaxValues = MinMaxOf(l.rawData),
              !.normalizedData =
                  [i \in 1..Len(l.rawData) |->
                      NormalizedPoint(MinMaxOf(l.rawData), l.rawData[i])]]

\* prepareTrainingData; tf.tensor2d throws on an empty array of rows.
prepareTrainingData(l) ==
    IF Empty(l.normalizedData)
    THEN [status |-> "error", message |-> "No normalized data available"]
    ELSE LET totalPoints == Len(l.normalizedData)
             trainPoints == (totalPoints * l.trainPercentage) \div 100
             trainData == Slice(l.normalizedData, 0, trainPoints)
             validationData == Slice(l.normalizedData, trainPoints, totalPoints)
             trainFeatures == [i \in 1..Len(trainData) |-> FeatureVector(trainData[i])]
             validationFeatures ==
                 [i \in 1..Len(validationData) |-> FeatureVector(validationData[i])]
         IN IF trainFeatures = <<>> \/ validationFeatures = <<>>
            THEN [status |-> "error", message |-> "tensor2d"]
            ELSE [status |-> "ok",
                  X_train |-> Tensor(trainFeatures),
                  X_validation |-> Tensor(validationFeatures),
                  trainData |-> trainData,
                  validationData |-> validationData,
                  trainFeatures |-> trainFeatures,
                  validationFeatures |-> validationFeatures]

\* BinanceDataLoader.dispose
loaderDispose(l) ==
    [l EXCEPT !.rawData = NoData, !.processedData = NoData,
              !.normalizedData = NoData, !.minMaxValues = <<>>]

\* Candles: finite non-negative fields, low <= open, close <= high.
Candle(open, close, volume) ==
    [open |-> RNum(open),
     high |-> RNum(IF open > close THEN open ELSE close),
     low |-> RNum(IF open < close THEN open ELSE close),
     close |-> RNum(close),
     volume |-> RNum(volume),
     quoteVolume |-> RNum(volume * close),
     trades |-> RNum(10 * volume)]

Candles == {Candle(o, c, v) : o \in {0, 1}, c \in {0, 2}, v \in {0, 3}}

\* The klines of a response: candles with their open times.
Klines(candles) ==
    [i \in 1..Len(candles) |->
        [timestamp |-> i, open |-> candles[i].open, high |-> candles[i].high,
         low |-> candles[i].low, close |-> candles[i].close,
         volume |-> candles[i].volume, quoteVolume |-> candles[i].quoteVolume,
         trades |-> candles[i].trades]]

InitLoader ==
    /\ loader = NewLoader
    /\ ret = NoRet
    /\ mlp = Unused /\ fit = Unused
    /\ ens = Unused /\ app = Unused /\ fn = Unused /\ store = Unused

loaderOthers == <<mlp, fit, ens, app, fn, store>>

\* A fetch into a loader without raw data resolves with the given klines.
LoaderFetch(klineData) ==
    /\ ret = NoRet
    /\ loader.rawData = NoData
    /\ loader' = [loader EXCEPT !.rawData = processKlineData(klineData)]
    /\ ret' = [op |-> "fetchMarketData", status |-> "ok"]
    /\ UNCHANGED loaderOthers

LoaderNormalize ==
    /\ ret = NoRet
    /\ IF Empty(loader.rawData)
       THEN /\ ret' = [op |-> "normalizeData", status |-> "error"]
            /\ UNCHANGED loader
       ELSE /\ ret' = [op |-> "normalizeData", status |-> "ok"]
            /\ loader' = normalizeData(loader)
    /\ UNCHANGED loaderOthers

LoaderPrepare ==
    /\ ret = NoRet
    /\ ret' = [op |-> "prepareTrainingData", out |-> prepareTrainingData(loader)]
    /\ UNCHANGED loader
    /\ UNCHANGED loaderOthers

LoaderDispose ==
    /\ ret = NoRet
    /\ loader' = loaderDispose(loader)
    /\ ret' = [op |-> "dispose"]
    /\ UNCHANGED loaderOthers

NextLoader ==
    \/ \E candles \in SeqsUpTo(Candles, MaxCandles) : LoaderFetch(Klines(candles))
    \/ LoaderNormalize
    \/ LoaderPrepare
    \/ LoaderDispose
    \/ Resume

SpecLoader == InitLoader /\ [][NextLoader]_vars

-----------------------------------------------------------------------------
(* AnomalyDetectionApp.  The handlers are async: an action is a handler    *)
(* run from a click up to its first await, or from the settling of the     *)
(* awaited promise to the handler's end.  The model and data loader        *)
(* objects the app has created are numbered; app.autoencoder and           *)
(* app.dataLoader name the current ones.  Of a model instance the app      *)
(* reads whether it has a model and whether its threshold is truthy.       *)

Instances == 1..MaxInstances

\* The fields of a new MLPAutoencoder the app depends on.
NewInstance == [model |-> FALSE, threshold |-> FALSE, isTrained |-> FALSE]

\* The state the constructor leaves; the buttons named in disabled are those
\* the page starts with disabled.
NewApp(disabled) ==
    [autoencoder |-> 1,
     dataLoader |-> 1,
     isTraining |-> FALSE,
     isDetecting |-> FALSE,
     trainingData |-> FALSE,
     anomalyResults |-> FALSE,
     disabled |-> disabled,
     models |-> [i \in Instances |-> NewInstance],
     rawData |-> [i \in Instances |-> FALSE],
     fetches |-> [i \in Instances |-> 0],
     trains |-> [i \in Instances |-> 0],
     loads |-> [i \in Instances |-> 0],
     saves |-> [i \in Instances |-> 0]]

enableButtons(a, buttonIds) == [a EXCEPT !.disabled = @ \ buttonIds]
disableButtons(a, buttonIds) == [a EXCEPT !.disabled = @ \cup buttonIds]

handleError(a) ==
    IF a.trainingData THEN enableButtons(a, {"trainBtn"})
    ELSE enableButtons(a, {"fetchDataBtn"})

\* The page's markup decides which buttons start disabled.
InitApp ==
    /\ app \in {NewApp(d) :
                  d \in SUBSET {"trainBtn", "detectBtn", "saveModelBtn", "downloadDataBtn"}}
    /\ mlp = Unused /\ fit = Unused /\ ret = Unused
    /\ ens = Unused /\ loader = Unused /\ fn = Unused /\ store = Unused

appOthers == <<mlp, fit, ret, ens, loader, fn, store>>

Clickable(button) == button \notin app.disabled

\* fetchMarketData up to the await; customRangeError: the custom range is
\* chosen without both dates, which throws before the button is disabled.
AppFetchMarketData(customRangeError) ==
    /\ Clickable("fetchDataBtn")
    /\ ~(app.isTraining \/ app.isDetecting)
    /\ IF customRangeError
       THEN app' = handleError(app)
       ELSE /\ app.fetches[app.dataLoader] < MaxPending
            /\ app' = [disableButtons(app, {"fetchDataBtn"})
                          EXCEPT !.fetches[app.dataLoader] = @ + 1]
    /\ UNCHANGED appOthers

\* fetchMarketDataBatched of loader i resolves: the loader has its rawData,
\* and the handler goes on with the app's current loader.
AppFetchResolve(i) ==
    /\ app.fetches[i] > 0
    /\ LET a == [app EXCEPT !.fetches[i] = @ - 1, !.rawData[i] = TRUE]
       IN app' = IF a.rawData[a.dataLoader]
                 THEN enableButtons([a EXCEPT !.trainingData = TRUE],
                                    {"trainBtn", "downloadDataBtn"})
                 ELSE handleError(a)
    /\ UNCHANGED appOthers

AppFetchReject(i) ==
    /\ app.fetches[i] > 0
    /\ app' = handleError([app EXCEPT !.fetches[i] = @ - 1])
    /\ UNCHANGED appOthers

\* trainModel up to the await: autoencoder.train has built the model if there
\* was none and awaits model.fit.
AppTrainModel ==
    /\ Clickable("trainBtn")
    /\ app.trainingData
    /\ ~app.isTraining
    /\ app.trains[app.autoencoder] < MaxCalls
    /\ app' = [disableButtons(app, {"trainBtn", "detectBtn", "saveModelBtn"})
                  EXCEPT !.isTraining = TRUE,
                         !.models[app.autoencoder].model = TRUE,
                         !.trains[app.autoencoder] = @ + 1]
    /\ UNCHANGED appOthers

\* A train call on instance i resolves: truthy says whether the calibrated
\* threshold is a truthy number.  calculateThreshold throws without a model.
AppTrainResolve(i, truthy) ==
    /\ app.trains[i] > 0
    /\ app.models[i].model
    /\ app' = [enableButtons(app, {"detectBtn", "saveModelBtn"})
                  EXCEPT !.trains[i] = @ - 1,
                         !.models[i].threshold = truthy,
                         !.models[i].isTrained = TRUE,
                         !.isTraining = FALSE]
    /\ UNCHANGED appOthers

\* A train call on instance i rejects.
AppTrainReject(i) ==
    /\ app.trains[i] > 0
    /\ app' = [handleError(app) EXCEPT !.trains[i] = @ - 1, !.isTraining = FALSE]
    /\ UNCHANGED appOthers

\* detectAnomalies has no await: it runs to its end.  The model's
\* detectAnomalies throws when the threshold is falsy.
AppDetectAnomalies ==
    /\ Clickable("detectBtn")
    /\ app.trainingData
    /\ app.models[app.autoencoder].model
    /\ ~app.isDetecting
    /\ LET a == disableButtons(app, {"detectBtn"})
           b == IF a.models[a.autoencoder].threshold
                THEN [a EXCEPT !.anomalyResults = TRUE]
                ELSE handleError(a)
       IN app' = enableButtons([b EXCEPT !.isDetecting = FALSE], {"detectBtn"})
    /\ UNCHANGED appOthers

AppSaveModel ==
    /\ Clickable("saveModelBtn")
    /\ app.models[app.autoencoder].model
    /\ app.saves[app.autoencoder] < MaxPending
    /\ app' = [app EXCEPT !.saves[app.autoencoder] = @ + 1]
    /\ UNCHANGED appOthers

AppSaveSettle(i, ok) ==
    /\ app.saves[i] > 0
    /\ app' = IF ok THEN [app EXCEPT !.saves[i] = @ - 1]
                     ELSE handleError([app EXCEPT !.saves[i] = @ - 1])
    /\ UNCHANGED appOthers

AppLoadModel ==
    /\ Clickable("loadModelBtn")
    /\ app.loads[app.autoencoder] < MaxPending
    /\ app' = [app EXCEPT !.loads[app.autoencoder] = @ + 1]
    /\ UNCHANGED appOthers

\* loadWeights of instance i resolves; config is "none" when no configuration
\* is stored, else whether the stored threshold is truthy.
AppLoadResolve(i, config) ==
    /\ app.loads[i] > 0
    /\ app' = [enableButtons(app, {"detectBtn", "saveModelBtn"})
                  EXCEPT !.loads[i] = @ - 1,
                         !.models[i].model = TRUE,
                         !.models[i].threshold =
                             IF config = "none" THEN @ ELSE config = "truthy"]
    /\ UNCHANGED appOthers

AppLoadReject(i) ==
    /\ app.loads[i] > 0
    /\ app' = handleError([app EXCEPT !.loads[i] = @ - 1])
    /\ UNCHANGED appOthers

\* resetApplication: dispose() of the current loader and model, the state
\* reset, a new loader and a new model, and the buttons.
AppResetApplication ==
    /\ Clickable("resetBtn")
    /\ app.autoencoder < MaxInstances
    /\ LET a == [app EXCEPT !.rawData[app.dataLoader] = FALSE,
                            !.models[app.autoencoder] = NewInstance,
                            !.isTraining = FALSE,
                            !.isDetecting = FALSE,
                            !.trainingData = FALSE,
                            !.anomalyResults = FALSE,
                            !.dataLoader = @ + 1,
                            !.autoencoder = @ + 1]
       IN app' = disableButtons(
                     enableButtons(a, {"fetchDataBtn", "loadModelBtn", "resetBtn"}),
                     {"trainBtn", "detectBtn", "saveModelBtn", "downloadDataBtn"})
    /\ UNCHANGED appOthers

NextApp ==
    \/ \E customRangeError \in BOOLEAN : AppFetchMarketData(customRangeError)
    \/ \E i \in Instances : AppFetchResolve(i)
    \/ \E i \in Instances : AppFetchReject(i)
    \/ AppTrainModel
    \/ \E i \in Instances, truthy \in BOOLEAN : AppTrainResolve(i, truthy)
    \/ \E i \in Instances : AppTrainReject(i)
    \/ AppDetectAnomalies
    \/ AppSaveModel
    \/ \E i \in Instances, ok \in BOOLEAN : AppSaveSettle(i, ok)
    \/ AppLoadModel
    \/ \E i \in Instances, config \in {"none", "truthy", "falsy"} : AppLoadResolve(i, config)
    \/ \E i \in Instances : AppLoadReject(i)
    \/ AppResetApplication

SpecApp == InitApp /\ [][NextApp]_vars

-----------------------------------------------------------------------------
(* The vote of EnsembleAutoencoder.detectAnomalies as a function of the    *)
(* members' severities for one row.                                        *)

Severities == {"normal", "warning", "critical"}

InitVote ==
    /\ fn \in {[op |-> "vote", severities |-> sv, done |-> FALSE,
                votes |-> Null, severity |-> "none"] :
                sv \in UNION {[1..n -> Severities] : n \in EnsembleSize..MaxMembers}}
    /\ mlp = Unused /\ fit = Unused /\ ret = Unused
    /\ ens = Unused /\ app = Unused /\ loader = Unused /\ store = Unused

Vote ==
    /\ ~fn.done
    /\ fn' = [fn EXCEPT !.done = TRUE,
                        !.votes = VoteCounts(fn.severities),
                        !.severity = FinalSeverity(VoteCounts(fn.severities),
                                                   Len(fn.severities))]
    /\ UNCHANGED <<mlp, fit, ret, ens, app, loader, store>>

NextVote == Vote

SpecVote == InitVote /\ [][NextVote]_vars

-----------------------------------------------------------------------------
(* calculateThreshold as a function of the per-row errors: the errors are  *)
(* drawn at the start and one step computes the threshold.                 *)

\* Arrays of the first lengths at which the percentile index leaves the last
\* element: ones, led by k values hi.
LongArray(n, k, hi) == [i \in 1..n |-> IF i <= k THEN hi ELSE 1]

ErrorArrays ==
    SeqsUpTo(0..MaxErr, MaxLen)
      \cup {LongArray(n, k, hi) : n \in (MaxLongLen - 3)..MaxLongLen,
                                   k \in 0..2, hi \in 0..MaxErr}

InitThreshold ==
    /\ fn \in {[op |-> "calculateThreshold", errorArray |-> a, done |-> FALSE,
                statisticalThreshold |-> Null, p95 |-> 0, threshold |-> Null] :
                a \in ErrorArrays}
    /\ mlp = Unused /\ fit = Unused /\ ret = Unused
    /\ ens = Unused /\ app = Unused /\ loader = Unused /\ store = Unused

CalculateThreshold ==
    /\ ~fn.done
    /\ fn' = [fn EXCEPT !.done = TRUE,
                        !.statisticalThreshold = StatisticalThreshold(fn.errorArray),
                        !.p95 = PercentileThreshold(fn.errorArray),
                        !.threshold = ThresholdOf(fn.errorArray)]
    /\ UNCHANGED <<mlp, fit, ret, ens, app, loader, store>>

NextThreshold == CalculateThreshold

SpecThreshold == InitThreshold /\ [][NextThreshold]_vars

-----------------------------------------------------------------------------
(* processKlineData as a function of the klines: the klines are drawn at   *)
(* the start, one step processes them, and a further step processes the    *)
(* same klines with one more kline, without the last one, or with one      *)
(* kline replaced, keeping the earlier result for comparison.              *)

KlineCandles ==
    {Candle(o, c, 3) : o \in {0, 2}, c \in {0, 1, 2}} \cup {Candle(2, 2, 0)}

\* The candles of the scenario "closes 100 then 90".
ScenarioCandles == <<Candle(100, 100, 3), Candle(100, 90, 3)>>

\* The closes of a long series of n candles: 1 and 2 only.
SeriesClose(shape, k, j) ==
    IF shape = "rise" THEN (IF j <= k THEN 1 ELSE 2)
    ELSE IF shape = "fall" THEN (IF j <= k THEN 2 ELSE 1)
    ELSE IF shape = "spike" THEN (IF j = k THEN 2 ELSE 1)
    ELSE 1 + (j % 2)

\* Each candle opens at the close before it.
Series(n, shape, k) ==
    [j \in 1..n |->
        Candle(SeriesClose(shape, k, IF j > 1 THEN j - 1 ELSE j),
               SeriesClose(shape, k, j), 3)]

SeriesLengths ==
    {RsiWindow + 1, BollingerWindow + 1, RegimeWindow + 1, RegimeWindow + 2, MaxSeries}

LongSeries ==
    {Series(n, shape, k) : n \in SeriesLengths,
                           shape \in {"rise", "fall", "spike", "zigzag"},
                           k \in {0, 1, 12, 19}}

KlineInputs == SeqsUpTo(KlineCandles, MaxShort) \cup {ScenarioCandles} \cup LongSeries

EditCandles == {Candle(2, 2, 3), Candle(1, 1, 0)}

\* changed is the 0-based index of the first kline that differs from the
\* klines of the earlier call, -1 when there was no earlier call.
InitKlines ==
    /\ fn \in {[op |-> "processKlineData", pc |-> "input", klineData |-> Klines(candles),
                out |-> <<>>, previous |-> <<>>, changed |-> -1, replaced |-> FALSE] :
                candles \in KlineInputs}
    /\ mlp = Unused /\ fit = Unused /\ ret = Unused
    /\ ens = Unused /\ app = Unused /\ loader = Unused /\ store = Unused

ProcessKlineData ==
    /\ fn.pc = "input"
    /\ fn' = [fn EXCEPT !.pc = "done", !.out = processKlineData(fn.klineData)]
    /\ UNCHANGED <<mlp, fit, ret, ens, app, loader, store>>

\* A second call, on klineData, after a first call has returned.
ProcessAgain(klineData, changed, replaced) ==
    /\ fn.pc = "done"
    /\ fn.changed = -1
    /\ fn' = [fn EXCEPT !.klineData = klineData,
                        !.out = processKlineData(klineData),
                        !.previous = fn.out,
                        !.changed = changed,
                        !.replaced = replaced]
    /\ UNCHANGED <<mlp, fit, ret, ens, app, loader, store>>

ProcessAppended(candle) ==
    /\ Len(fn.klineData) <= MaxSeries
    /\ ProcessAgain(Klines(Append(fn.klineData, candle)), Len(fn.klineData), FALSE)

ProcessTruncated ==
    /\ Len(fn.klineData) > 1
    /\ ProcessAgain(SubSeq(fn.klineData, 1, Len(fn.klineData) - 1),
                    Len(fn.klineData) - 1, FALSE)

ProcessReplaced(p, candle) ==
    /\ p \in 1..Len(fn.klineData)
    /\ Klines([fn.klineData EXCEPT ![p] = candle]) # fn.klineData
    /\ ProcessAgain(Klines([fn.klineData EXCEPT ![p] = candle]), p - 1, TRUE)

NextKlines ==
    \/ ProcessKlineData
    \/ \E candle \in EditCandles : ProcessAppended(candle)
    \/ ProcessTruncated
    \/ \E p \in 1..(MaxSeries + 1), candle \in EditCandles : ProcessReplaced(p, candle)

SpecKlines == InitKlines /\ [][NextKlines]_vars

-----------------------------------------------------------------------------
(* BinanceDataLoader.setDateRange, calculateBatchConfig, fetchMarketData   *)
(* and fetchMarketDataBatched.  A Date is [k |-> "date", t |-> seconds     *)
(* since the epoch]; a time sent to the endpoint is the rational n/d       *)
(* seconds, since timePerBatch need not be whole.  A kline is held by its  *)
(* open time kline[0].                                                      *)

Date(t) == [k |-> "date", t |-> t]
Time(n, d) == [n |-> n, d |-> d]

\* a || b for dates.
DateOr(a, b) == IF a # Null THEN a ELSE b

\* Math.ceil(a / b) for a whole a and b > 0.
CeilDiv(a, b) == IF a >= 0 THEN (a + b - 1) \div b ELSE -((-a) \div b)

\* getIntervalMs, in seconds; an unknown interval counts as '1h'.
getIntervalMs(interval) ==
    CASE interval = "1s" -> 1
      [] interval = "1m" -> 60
      [] interval = "3m" -> 3 * 60
      [] interval = "5m" -> 5 * 60
      [] interval = "15m" -> 15 * 60
      [] interval = "30m" -> 30 * 60
      [] interval = "1h" -> 60 * 60
      [] interval = "2h" -> 2 * 60 * 60
      [] interval = "4h" -> 4 * 60 * 60
      [] interval = "6h" -> 6 * 60 * 60
      [] interval = "8h" -> 8 * 60 * 60
      [] interval = "12h" -> 12 * 60 * 60
      [] interval = "1d" -> 24 * 60 * 60
      [] interval = "3d" -> 3 * 24 * 60 * 60
      [] interval = "1w" -> 7 * 24 * 60 * 60
      [] interval = "1M" -> 30 * 24 * 60 * 60
      [] OTHER -> 60 * 60

\* setDateRange: both fields are assigned, then the range is validated.
setDateRange(l, startDate, endDate) ==
    [l EXCEPT !.startDate = startDate, !.endDate = endDate]

DateRangeValid(l) == ~(l.startDate.t >= l.endDate.t)

\* calculateBatchConfig.  timePerBatch is totalTimeMs / batchesNeeded and is
\* kept as that quotient: batch i starts at start + i * totalTimeMs / batchesNeeded.
calculateBatchConfig(l, startDate, endDate, interval) ==
    LET totalTimeMs == endDate.t - startDate.t
        intervalMs == getIntervalMs(interval)
        totalDataPoints == CeilDiv(totalTimeMs, intervalMs)
        batchesNeeded == CeilDiv(totalDataPoints, l.batchSize)
    IN [totalTimeMs |-> totalTimeMs,
        totalDataPoints |-> totalDataPoints,
        batchesNeeded |-> batchesNeeded,
        intervalMs |-> intervalMs]

\* The request fetchMarketData sends: the loader's own interval, lookback
\* window ending now, and limit.
SingleRequest(l, symbol, now) ==
    [symbol |-> symbol,
     interval |-> l.interval,
     startTime |-> Time(now - l.lookbackDays * DaySeconds, 1),
     endTime |-> Time(now, 1),
     limit |-> l.limit]

\* Math.min(a, end) of the time a and the whole time end.
MinTime(a, end) == IF a.n <= end * a.d THEN a ELSE Time(end, 1)

\* The request of batch i (0-based) of fetchMarketDataBatched.
BatchRequest(l, symbol, interval, start, end, config, i) ==
    [symbol |-> symbol,
     interval |-> interval,
     startTime |-> Time(start.t * config.batchesNeeded + i * config.totalTimeMs,
                        config.batchesNeeded),
     endTime |-> MinTime(Time(start.t * config.batchesNeeded
                                 + (i + 1) * config.totalTimeMs,
                              config.batchesNeeded),
                         end.t),
     limit |-> l.batchSize]

\* The endpoint: klines open at the whole multiples of the interval, and a
\* request is answered, oldest first, with every kline whose open time lies
\* in the inclusive window, up to the limit.
Endpoint(request) ==
    LET step == getIntervalMs(request.interval)
        first == CeilDiv(request.startTime.n, step * request.startTime.d)
        last == request.endTime.n \div (step * request.endTime.d)
        inWindow == IF last >= first THEN last - first + 1 ELSE 0
        count == IF inWindow <= request.limit THEN inWindow ELSE request.limit
    IN [j \in 1..count |-> (first + j - 1) * step]

\* processKlineData keeps one point per kline, in order, with the kline's
\* open time as its timestamp.
ProcessedTimestamps(klineData) ==
    [j \in 1..Len(klineData) |-> [timestamp |-> klineData[j]]]

FetchIdle == [pc |-> "idle"]

\* Date.now() of the calls.
Now == 2400 * HourSeconds
FirstDay == 2016 * HourSeconds
HalfHour == HourSeconds \div 2

\* The ranges asked for: 1350, 1800, 1001 and 1000 hourly points from the
\* start of a day, 1350 and 10 hourly points from half past, 1350 daily
\* points, 10 daily points, and no dates given.
FetchInputs ==
    {[startDate |-> Date(FirstDay), endDate |-> Date(FirstDay + h * HourSeconds),
      interval |-> "1h"] : h \in {1000, 1001, 1350, 1800}}
    \cup {[startDate |-> Date(FirstDay + HalfHour),
           endDate |-> Date(FirstDay + HalfHour + h * HourSeconds),
           interval |-> "1h"] : h \in {10, 1350}}
    \cup {[startDate |-> Date(0), endDate |-> Date(d * DaySeconds), interval |-> "1d"] :
             d \in {10, 1350}}
    \cup {[startDate |-> Null, endDate |-> Null, interval |-> "1h"]}

\* The dates given to setDateRange.
RangeDates == {Date(FirstDay), Date(FirstDay + 1350 * HourSeconds)}

InitFetch ==
    /\ loader = NewLoader
    /\ fn = FetchIdle
    /\ ret = NoRet
    /\ mlp = Unused /\ fit = Unused
    /\ ens = Unused /\ app = Unused /\ store = Unused

fetchOthers == <<mlp, fit, ens, app, store>>

SetDateRange(startDate, endDate) ==
    /\ ret = NoRet
    /\ loader' = setDateRange(loader, startDate, endDate)
    /\ ret' = [op |-> "setDateRange", startDate |-> startDate, endDate |-> endDate,
               status |-> IF DateRangeValid(loader') THEN "ok" ELSE "error",
               message |-> IF DateRangeValid(loader') THEN "Date range set"
                           ELSE "Start date must be before end date"]
    /\ UNCHANGED fn
    /\ UNCHANGED fetchOthers

\* fetchMarketDataBatched up to its first await: the request of
\* fetchMarketData when the range is within maxApiLimit points, else the
\* request of batch 0.
FetchMarketDataBatched(symbol, startDate, endDate, interval, now) ==
    /\ fn.pc = "idle"
    /\ ret = NoRet
    /\ LET start == DateOr(DateOr(startDate, loader.startDate),
                           Date(now - loader.lookbackDays * DaySeconds))
           end == DateOr(DateOr(endDate, loader.endDate), Date(now))
           config == calculateBatchConfig(loader, start, end, interval)
           single == config.totalDataPoints <= loader.maxApiLimit
       IN fn' = [pc |-> IF single THEN "single" ELSE "batch",
                 symbol |-> symbol,
                 startDate |-> startDate,
                 endDate |-> endDate,
                 interval |-> interval,
                 start |-> start,
                 end |-> end,
                 config |-> config,
                 i |-> 0,
                 allData |-> <<>>,
                 requests |-> IF single
                              THEN <<SingleRequest(loader, symbol, now)>>
                              ELSE <<BatchRequest(loader, symbol, interval,
                                                  start, end, config, 0)>>]
    /\ UNCHANGED <<loader, ret>>
    /\ UNCHANGED fetchOthers

FetchResult(status) ==
    [op |-> "fetchMarketDataBatched", status |-> status,
     batched |-> fn.pc = "batch",
     startDate |-> fn.startDate, endDate |-> fn.endDate,
     start |-> fn.start, end |-> fn.end, interval |-> fn.interval,
     requests |-> fn.requests]

\* The response of the one request of fetchMarketData.
SingleResponse ==
    /\ fn.pc = "single"
    /\ ret = NoRet
    /\ LET klineData == Endpoint(fn.requests[1])
       IN /\ loader' = [loader EXCEPT !.rawData = ProcessedTimestamps(klineData)]
          /\ ret' = FetchResult("ok") @@ [allData |-> klineData]
    /\ fn' = FetchIdle
    /\ UNCHANGED fetchOthers

\* The response of batch i: its klines are pushed, and either the next batch
\* is requested or the combined klines are processed and returned.
BatchResponse ==
    /\ fn.pc = "batch"
    /\ ret = NoRet
    /\ LET allData == fn.allData \o Endpoint(fn.requests[fn.i + 1])
           i == fn.i + 1
       IN IF i < fn.config.batchesNeeded
          THEN /\ fn' = [fn EXCEPT
                           !.i = i,
                           !.allData = allData,
                           !.requests = Append(@, BatchRequest(loader, fn.symbol,
                               fn.interval, fn.start, fn.end, fn.config, i))]
               /\ UNCHANGED <<loader, ret>>
          ELSE /\ loader' = [loader EXCEPT !.rawData = ProcessedTimestamps(allData)]
               /\ ret' = FetchResult("ok") @@ [allData |-> allData]
               /\ fn' = FetchIdle
    /\ UNCHANGED fetchOthers

\* A response that is not ok, or a rejected fetch: the call throws.
FetchFail ==
    /\ fn.pc \in {"single", "batch"}
    /\ ret = NoRet
    /\ ret' = FetchResult("error") @@ [allData |-> fn.allData]
    /\ fn' = FetchIdle
    /\ UNCHANGED loader
    /\ UNCHANGED fetchOthers

FetchResume ==
    /\ ret # NoRet
    /\ ret' = NoRet
    /\ UNCHANGED <<loader, fn>>
    /\ UNCHANGED fetchOthers

NextFetch ==
    \/ \E s \in RangeDates, e \in RangeDates : SetDateRange(s, e)
    \/ \E in \in FetchInputs :
          FetchMarketDataBatched("BTCUSDT", in.startDate, in.endDate, in.interval, Now)
    \/ SingleResponse
    \/ BatchResponse
    \/ FetchFail
    \/ FetchResume

SpecFetch == InitFetch /\ [][NextFetch]_vars

-----------------------------------------------------------------------------
(* Properties of MLPAutoencoder.detectAnomalies, under Spec.               *)

\* x + y*sqrt(D) >= 0 for integers x, y and D >= 0.
SurdNonneg(x, y, D) ==
    \/ x >= 0 /\ y >= 0
    \/ x >= 0 /\ y < 0 /\ x * x >= y * y * D
    \/ x < 0 /\ y > 0 /\ y * y * D >= x * x

\* p*e >= q*t and p*e > q*t for an integer e, the real t = (a + b*sqrt(d))/c
\* and positive integers p, q.
TimesGeq(p, e, q, t) == SurdNonneg(p * e * t.c - q * t.a, -(q * t.b), t.d)
TimesGt(p, e, q, t) == ~SurdNonneg(q * t.a - p * e * t.c, q * t.b, t.d)

Detected == ret.op = "detectAnomalies" /\ ret.out.status = "ok"
DetectedWithMetadata == Detected /\ ret.metadata # NoMetadata
Scored == IF Detected THEN ret.out.anomalies ELSE <<>>

\* C1: every scored row with error e and threshold t is 'critical' iff
\* e >= 1.2*t, 'warning' iff t <= e < 1.2*t and 'normal' iff e < t.
C1_SeverityBoundaries ==
    \A i \in 1..Len(Scored) :
        LET r == Scored[i]
            e == r.error
            t == mlp.threshold
        IN /\ r.severity \in {"critical", "warning", "normal"}
           /\ r.severity = "critical" <=> TimesGeq(10, e, 12, t)
           /\ r.severity = "warning" <=> (TimesGeq(1, e, 1, t) /\ ~TimesGeq(10, e, 12, t))
           /\ r.severity = "normal" <=> ~TimesGeq(1, e, 1, t)

\* A result holding a row whose error equals the threshold, scored warning,
\* and a row whose error equals 1.2 times the threshold, scored critical.
C1_Witness ==
    /\ Detected
    /\ mlp.threshold.b * mlp.threshold.d = 0
    /\ \E i, j \in 1..Len(Scored) :
          /\ Scored[i].error * mlp.threshold.c = mlp.threshold.a
          /\ Scored[i].severity = "warning"
          /\ 10 * Scored[j].error * mlp.threshold.c = 12 * mlp.threshold.a
          /\ Scored[j].severity = "critical"

\* C5 (as claimed): detectAnomalies throws its precondition error exactly
\* when there is no model or the threshold is null, and never once train has
\* completed.
C5_PreconditionOnlyWhenUncalibrated ==
    ret.op = "detectAnomalies" =>
        /\ ret.out.status = "error" <=> (mlp.model = "null" \/ mlp.threshold = Null)
        /\ mlp.isTrained => ret.out.status = "ok"

\* C9: the anomalies list holds one record per input row, in descending
\* order of error, records of equal error in ascending row index.
C9_SortedByErrorThenIndex ==
    Detected =>
        LET A == ret.out.anomalies
            n == Len(ret.X)
        IN /\ Len(A) = n
           /\ \A k \in 0..(n - 1) : Cardinality({i \in 1..n : A[i].index = k}) = 1
           /\ \A i \in 1..n : A[i].error = RowError(mlp.model, ret.X[A[i].index + 1])
           /\ \A i, j \in 1..n :
                 i < j => \/ A[i].error > A[j].error
                          \/ A[i].error = A[j].error /\ A[i].index < A[j].index

\* A result whose order differs from the input's and that holds a tie.
C9_Witness ==
    /\ Detected
    /\ \E i \in 1..Len(Scored) : Scored[i].index # i - 1
    /\ \E i, j \in 1..Len(Scored) : i < j /\ Scored[i].error = Scored[j].error

-----------------------------------------------------------------------------
(* Properties of MLPAutoencoder.train, under SpecTrain.                    *)

MinOf(S) == CHOOSE x \in S : \A y \in S : x <= y

\* The epochs of a run that improved on the best validation loss before them.
Improvements(losses) ==
    {k \in 1..Len(losses) : \A j \in 1..(k - 1) : losses[k] < losses[j]}

\* The number of epochs since the last improvement.
NonImproving(losses) ==
    IF losses = <<>> THEN 0
    ELSE Len(losses) - (CHOOSE k \in Improvements(losses) :
                            \A j \in Improvements(losses) : j <= k)

\* The number of epochs a run of the given length makes when the validation
\* losses are those given: it ends with the first epoch that leaves patience
\* epochs without improvement.
StopsAfter(losses, epochs, patience) ==
    /\ Len(losses) <= epochs
    /\ \A k \in 1..(Len(losses) - 1) : NonImproving(SubSeq(losses, 1, k)) < patience
    /\ Len(losses) < epochs => NonImproving(losses) >= patience

C6_State ==
    /\ fit.pc = "fit" =>
          /\ fit.epoch = Len(fit.val_loss)
          /\ fit.epoch <= fit.epochs
          /\ fit.patienceCounter = NonImproving(fit.val_loss)
          /\ fit.val_loss # <<>> =>
                fit.bestValLoss = Finite(MinOf({fit.val_loss[k] : k \in 1..Len(fit.val_loss)}))
          /\ fit.stopTraining <=> fit.patienceCounter >= EarlyStoppingPatience
          /\ fit.stopTraining => fit.batch = 0
    /\ ret.op = "train" =>
          /\ ret.epochsRun = Len(ret.val_loss)
          /\ StopsAfter(ret.val_loss, ret.epochs, EarlyStoppingPatience)
          /\ mlp.history = History(ret.val_loss)

C6_Step ==
    /\ (fit.pc = "fit" /\ fit'.pc = "fit" /\ fit'.epoch # fit.epoch) =>
          /\ fit'.epoch = fit.epoch + 1
          /\ fit.batch = fit.batches
          /\ ~fit.stopTraining
          /\ SubSeq(fit'.val_loss, 1, fit.epoch) = fit.val_loss
    /\ (fit.pc = "fit" /\ fit'.pc = "fit" /\ fit'.stopTraining # fit.stopTraining) =>
          fit'.epoch = fit.epoch + 1
    /\ (fit.pc = "fit" /\ fit'.pc = "fit" /\ fit'.batch # fit.batch) =>
          ~fit.stopTraining /\ fit.epoch < fit.epochs

\* C6: the epochs of a training run are run in order, none skipped; after
\* each one the validation loss either is strictly below the best of the run
\* and the count of non-improving epochs is 0, or the count goes up by 1; the
\* run ends with the first epoch at which the count reaches
\* earlyStoppingPatience, otherwise after exactly `epochs` epochs, and the
\* stop flag changes only at the end of an epoch.
C6_EarlyStopping == []C6_State /\ [][C6_Step]_vars

\* A run stopped early, before its `epochs`, in which the count had been
\* reset by an improvement after a non-improving epoch.
C6_Witness ==
    /\ ret.op = "train"
    /\ ret.epochsRun < ret.epochs
    /\ \E k \in 2..Len(ret.val_loss) :
          /\ k \in Improvements(ret.val_loss)
          /\ (k - 1) \notin Improvements(ret.val_loss)

-----------------------------------------------------------------------------
(* Properties of MLPAutoencoder.calculateThreshold, under SpecThreshold.   *)

MaxOf(S) == CHOOSE x \in S : \A y \in S : y <= x

\* C4: for n >= 1 errors the threshold is min(mean + 1.5*std, sorted[k]) with
\* k = floor(0.95*n), mean and std the mean and population standard deviation
\* and sorted the errors in ascending order; k is within the array, and for
\* n < 20 sorted[k] is the maximum error.
C4_Threshold ==
    fn.done =>
        LET arr == fn.errorArray
            n == Len(arr)
            S == SumSeq(arr)
            k == CHOOSE j \in 0..n : 100 * j <= 95 * n /\ 95 * n < 100 * (j + 1)
            st == fn.statisticalThreshold
            below == Cardinality({i \in 1..n : arr[i] < fn.p95})
            upto == Cardinality({i \in 1..n : arr[i] <= fn.p95})
        IN /\ k \in 0..(n - 1)
           \* sorted[k]: at most k errors are smaller, more than k are no larger
           /\ \E i \in 1..n : arr[i] = fn.p95
           /\ below <= k /\ k < upto
           /\ n < 20 => fn.p95 = MaxOf({arr[i] : i \in 1..n})
           \* mean = S/n and (1.5*std)^2 = 9/4 * sum((n*x - S)^2) / n^3
           /\ st.c * S = st.a * n
           /\ 4 * n * n * n * st.d * st.b * st.b
                 = 9 * st.c * st.c * SumSeq([i \in 1..n |-> Square(n * arr[i] - S)])
           /\ st.d >= 0 /\ st.b >= 0 /\ st.c > 0
           /\ \/ fn.threshold = st /\ SurdNonneg(fn.p95 * st.c - st.a, -st.b, st.d)
              \/ fn.threshold = Num(fn.p95) /\ SurdNonneg(st.a - fn.p95 * st.c, st.b, st.d)

\* An array of more than 20 errors whose percentile term is below its maximum
\* and below mean + 1.5*std, and so is the threshold.
C4_Witness ==
    /\ fn.done
    /\ Len(fn.errorArray) > 20
    /\ fn.p95 < MaxOf({fn.errorArray[i] : i \in 1..Len(fn.errorArray)})
    /\ fn.threshold = Num(fn.p95)
    /\ fn.threshold # fn.statisticalThreshold

-----------------------------------------------------------------------------
(* Properties of EnsembleAutoencoder.detectAnomalies.                      *)

CountOf(sv, x) == Cardinality({j \in 1..Len(sv) : sv[j] = x})

\* C2: under SpecVote, for n = 3, 4, 5 members and every combination of their
\* severities, the combined severity is 'critical' if the critical votes
\* reach ceil(n/2), otherwise 'warning' if the warning votes or the warning
\* and critical votes together reach ceil(n/2), otherwise 'normal'.
C2_MajorityVote ==
    fn.done =>
        LET sv == fn.severities
            n == Len(sv)
            c == CountOf(sv, "critical")
            w == CountOf(sv, "warning")
            half == CHOOSE h \in 0..n : 2 * h >= n /\ 2 * (h - 1) < n
        IN /\ fn.votes = [normal |-> n - c - w, warning |-> w, critical |-> c]
           /\ c >= half => fn.severity = "critical"
           /\ (c < half /\ (w >= half \/ w + c >= half)) => fn.severity = "warning"
           /\ (c < half /\ w < half /\ w + c < half) => fn.severity = "normal"
           /\ sv = <<"critical", "critical", "normal">> => fn.severity = "critical"
           /\ sv = <<"warning", "normal", "normal">> => fn.severity = "normal"

\* Four members, two of them voting critical: exactly ceil(n/2) votes.
C2_Witness ==
    /\ fn.done
    /\ Len(fn.severities) = 4
    /\ fn.votes.critical = 2
    /\ fn.severity = "critical"

EnsembleDetected == ret.op = "detectAnomalies" /\ ret.out.status = "ok"

\* C3 (as claimed): under SpecEnsemble, every record of the ensemble's result
\* combines the members' results for the input row its index names: the votes
\* count the members' severities for that row, the error is the mean of the
\* members' errors for that row, and the metadata is that row's.
C3_RecordsCombineOneRow ==
    EnsembleDetected =>
        \A p \in 1..Len(ret.out.anomalies) :
            LET r == ret.out.anomalies[p]
                row == ret.X[r.index + 1]
                n == Len(ens.models)
                sev == [j \in 1..n |->
                          SeverityOf(RowError(ens.models[j].model, row),
                                     ens.models[j].threshold,
                                     CriticalThreshold(ens.models[j].threshold))]
            IN /\ r.error = SumSeq([j \in 1..n |-> RowError(ens.models[j].model, row)])
               /\ r.votes = VoteCounts(sev)
               /\ r.metadata = MetadataAt(ret.metadata, r.index + 1)

-----------------------------------------------------------------------------
(* Properties of AnomalyDetectionApp, under SpecApp.                       *)

\* C7 (as claimed): under every interleaving of the app's operations, at
\* most one train call is in progress on any one model instance.
C7_OneTrainPerInstance == \A i \in Instances : app.trains[i] <= 1

-----------------------------------------------------------------------------
(* Properties of BinanceDataLoader, under SpecLoader.                      *)

DerivedFeatures ==
    {"priceChange", "volumeChange", "volatility", "priceAcceleration", "volumeSpike",
     "priceGap", "priceMomentum", "volumeMomentum", "rsi", "bollingerPosition",
     "marketRegime", "fundingRateProxy", "openInterestProxy"}

AllFinite(matrix) ==
    \A i \in 1..Len(matrix) : \A f \in 1..Len(matrix[i]) : IsFinite(matrix[i][f])

\* C8 (as claimed): for candles of finite non-negative fields, every feature
\* value processKlineData produces and every value of the train and
\* validation matrices is a finite number.
C8_NoNaNOrInfinity ==
    /\ loader.rawData # NoData =>
          \A i \in 1..Len(loader.rawData) :
              \A f \in DerivedFeatures : IsFinite(loader.rawData[i][f])
    /\ (ret.op = "prepareTrainingData" /\ ret.out.status = "ok") =>
          AllFinite(ret.out.trainFeatures) /\ AllFinite(ret.out.validationFeatures)

Fitted == loader.normalizedData # NoData

FeatureSet == {FeatureNames[f] : f \in 1..Len(FeatureNames)}

\* x === y
StrictEquals(x, y) == x.k # "nan" /\ y.k # "nan" /\ x = y

\* 0 <= x <= 1
InUnitInterval(x) == IsFinite(x) /\ ~RLess(x, RNum(0)) /\ ~RLess(RNum(1), x)

\* C11 (as claimed): with the min and max normalizeData has fitted, for every
\* feature with max > min each value v of the dataset is normalized into
\* [0, 1] and denormalizeValue takes the normalized value back to v; for
\* every feature with max = min, normalizeValue gives 0.
C11_NormalizerRoundTrip ==
    Fitted =>
        \A feature \in FeatureSet : \A i \in 1..Len(loader.processedData) :
            LET v == loader.processedData[i][feature]
                normalized == loader.normalizedData[i][feature]
                min == loader.minMaxValues[feature].min
                max == loader.minMaxValues[feature].max
            IN /\ RLess(min, max) =>
                     /\ InUnitInterval(normalized)
                     /\ StrictEquals(denormalizeValue(loader.minMaxValues, normalized,
                                                      feature), v)
               /\ StrictEquals(min, max) => IsZeroNumber(normalized)

-----------------------------------------------------------------------------
(* Properties of BinanceDataLoader.processKlineData, under SpecKlines.     *)
(* Indices are 0-based as in the source: Kline(i) is klineData[i] and      *)
(* Vector(i) the data point at index i of the result.  The fields of the   *)
(* klines drawn are integers.                                              *)

Processed == fn.pc = "done"
Indices == 0..(Len(fn.out) - 1)
Kline(i) == fn.klineData[i + 1]
Vector(i) == fn.out[i + 1]
CloseAt(i) == Kline(i).close.n
OpenAt(i) == Kline(i).open.n

\* The klines at the indices max(0, i - back) .. i.
TrailingKlines(i, back) ==
    SubSeq(fn.klineData, (IF i - back > 0 THEN i - back ELSE 0) + 1, i + 1)

\* C12 (as claimed): priceChange is 0 at index 0, 0 when the close before is
\* 0, and otherwise (close[i] - close[i-1]) / close[i-1] * 100; closes 100
\* then 90 give -10.
C12_PriceChange ==
    Processed =>
        /\ \A i \in Indices :
              Vector(i).priceChange =
                  IF i = 0 \/ CloseAt(i - 1) = 0 THEN RNum(0)
                  ELSE Ratio(100 * (CloseAt(i) - CloseAt(i - 1)), CloseAt(i - 1))
        /\ (Len(fn.out) = 2 /\ CloseAt(0) = 100 /\ CloseAt(1) = 90) =>
              Vector(1).priceChange = RNum(-10)

\* C13 (as claimed): priceGap is 0 at index 0 and, after a non-zero close,
\* |open[i] - close[i-1]| / close[i-1] * 100, so 0 when the candle opens at
\* the close before it.
C13_PriceGap ==
    Processed =>
        \A i \in Indices :
            /\ i = 0 => Vector(i).priceGap = RNum(0)
            /\ (i > 0 /\ CloseAt(i - 1) # 0) =>
                  /\ Vector(i).priceGap =
                        Ratio(100 * Abs(OpenAt(i) - CloseAt(i - 1)), CloseAt(i - 1))
                  /\ OpenAt(i) = CloseAt(i - 1) => Vector(i).priceGap = RNum(0)

\* C14 (as claimed): the rsi at index i is the RSI of the closes at the
\* indices max(0, i-13) .. i, the current candle included.
C14_RsiWindow ==
    Processed =>
        \A i \in Indices : Vector(i).rsi = calculateRSI(TrailingKlines(i, RsiWindow))

\* The window the source hands to calculateRSI for index i: a slice of the
\* points pushed before index i.
RsiInput(i) ==
    Slice(SubSeq(fn.out, 1, i), IF i - RsiWindow > 0 THEN i - RsiWindow ELSE 0, i + 1)

\* The sums of the rises and of the falls between consecutive closes.
RiseSum(data) ==
    SumSeq([j \in 1..(Len(data) - 1) |->
               IF data[j + 1].close.n > data[j].close.n
               THEN data[j + 1].close.n - data[j].close.n ELSE 0])
FallSum(data) ==
    SumSeq([j \in 1..(Len(data) - 1) |->
               IF data[j + 1].close.n < data[j].close.n
               THEN data[j].close.n - data[j + 1].close.n ELSE 0])

FlatSeries(n) ==
    /\ Len(fn.klineData) = n
    /\ \A i \in Indices : CloseAt(i) = CloseAt(0)

\* C15: on a window of at least 2 candles calculateRSI returns 100 when the
\* falls sum to 0 (also when the rises do), 0 when only the rises sum to 0,
\* and 100 - 100/(1 + rises/falls) = 100*rises/(rises + falls) otherwise, a
\* value in [0, 100]; after 14 identical closes the last rsi is 100.
C15_RsiPrecedence ==
    Processed =>
        /\ \A i \in Indices :
              LET data == RsiInput(i)
                  gains == RiseSum(data)
                  losses == FallSum(data)
              IN Len(data) >= 2 =>
                    /\ Vector(i).rsi =
                          IF losses = 0 THEN RNum(100)
                          ELSE IF gains = 0 THEN RNum(0)
                          ELSE Ratio(100 * gains, gains + losses)
                    /\ ~RLess(Vector(i).rsi, RNum(0))
                    /\ ~RLess(RNum(100), Vector(i).rsi)
        /\ FlatSeries(RsiWindow + 1) => Vector(RsiWindow).rsi = RNum(100)

\* A flat series of 14 closes has been processed, and some other window has
\* both rises and falls.
C15_Witness ==
    /\ Processed
    /\ FlatSeries(RsiWindow + 1)
    /\ Len(RsiInput(RsiWindow)) >= 2
    /\ RiseSum(RsiInput(RsiWindow)) = 0 /\ FallSum(RsiInput(RsiWindow)) = 0

\* C16 (as claimed): from index 19 on, bollingerPosition is the position of
\* close[i] within the bands of the 20 closes at the indices i-19 .. i.
C16_BollingerWindow ==
    Processed =>
        \A i \in Indices :
            i >= BollingerWindow =>
                Vector(i).bollingerPosition =
                    calculateBollingerPosition(TrailingKlines(i, BollingerWindow),
                                               Kline(i).close)

\* C17 (as claimed): from index 23 on, marketRegime is the regime of the 24
\* closes at the indices i-23 .. i, so a step up within the window after
\* which the percent change exceeds twice the volatility gives 1.
C17_RegimeWindow ==
    Processed =>
        \A i \in Indices :
            i >= RegimeWindow =>
                Vector(i).marketRegime = detectMarketRegime(TrailingKlines(i, RegimeWindow))

\* C18: a single candle gives one feature vector with the defaults of the
\* lookback features.
C18_SingleCandleDefaults ==
    (Processed /\ Len(fn.klineData) = 1) =>
        /\ Len(fn.out) = 1
        /\ Vector(0).priceAcceleration = RNum(0)
        /\ Vector(0).priceMomentum = RNum(0)
        /\ Vector(0).rsi = RNum(50)
        /\ Vector(0).bollingerPosition = RNum(0)
        /\ Vector(0).marketRegime = RNum(0)
        /\ Vector(0).priceChange = RNum(0)
        /\ Vector(0).volumeSpike = RNum(0)
        /\ Vector(0).volumeMomentum = RNum(0)

C18_Witness ==
    /\ Processed
    /\ Len(fn.klineData) = 1
    /\ Kline(0).close.n > 0 /\ Kline(0).volume.n > 0
    /\ Vector(0).rsi = RNum(50)

\* C19: one vector per kline, in the klines' order; and after a second call
\* on klines that differ from the first call's klines from index changed on
\* (or, when one kline was replaced, at index changed only), the vector at
\* index i is the first call's when changed > i or changed < i - 23.
C19_TrailingDependence ==
    Processed =>
        /\ Len(fn.out) = Len(fn.klineData)
        /\ \A i \in Indices :
              /\ Vector(i).timestamp = Kline(i).timestamp
              /\ Vector(i).open = Kline(i).open /\ Vector(i).close = Kline(i).close
              /\ Vector(i).volume = Kline(i).volume
        /\ fn.changed # -1 =>
              \A i \in Indices :
                  (i < Len(fn.previous)
                     /\ (fn.changed > i \/ (fn.replaced /\ fn.changed < i - RegimeWindow)))
                  => Vector(i) = fn.previous[i + 1]

\* A kline more than 23 places before the last one was replaced, which
\* changed some vector but not the last.
C19_Witness ==
    /\ Processed
    /\ fn.replaced
    /\ fn.changed < Len(fn.out) - 1 - RegimeWindow
    /\ \E i \in Indices : Vector(i) # fn.previous[i + 1]
    /\ Vector(Len(fn.out) - 1) = fn.previous[Len(fn.out)]

-----------------------------------------------------------------------------
(* Properties of EnsembleAutoencoder.train, under SpecEnsembleTrain.       *)

MinOfTwo(a, b) == IF a <= b THEN a ELSE b

\* Member j holds the result of a completed train() on X_train with the
\* epochs the call gives its members.
CompletedOn(m, X_train, epochs) ==
    /\ m.isTrained
    /\ m.threshold # Null
    /\ m.history # Null
    /\ m.trainingData = Tensor(X_train)
    /\ m.epochs = MinOfTwo(epochs, EnsembleEpochCap)

C20_State ==
    /\ fit.pc # "idle" =>
          /\ fit.i \in 1..(Len(ens.models) + 1)
          /\ \A j \in 1..(fit.i - 1) : CompletedOn(ens.models[j], fit.X_train, fit.epochs)
    /\ fit.pc = "fit" =>
          /\ ens.models[fit.i].epochs = MinOfTwo(fit.epochs, EnsembleEpochCap)
          /\ ens.models[fit.i].trainingData = Tensor(fit.X_train)
          /\ fit.member.epochs = MinOfTwo(fit.epochs, EnsembleEpochCap)
          /\ fit.member.X_train = fit.X_train
          /\ fit.member.X_validation = fit.X_validation
    /\ ens.isTrained => \A j \in 1..Len(ens.models) : ens.models[j].isTrained

C20_Step ==
    /\ \A j \in 1..Len(ens.models) :
          ens.models'[j] # ens.models[j] => (fit.pc # "idle" /\ j = fit.i)
    /\ (fit.pc # "idle" /\ fit'.pc # "idle" /\ fit'.i # fit.i) =>
          /\ fit'.i = fit.i + 1
          /\ fit.pc = "fit" /\ FitOver(fit.member)
          /\ CompletedOn(ens.models'[fit.i], fit.X_train, fit.epochs)
          /\ ens.models'[fit.i].history = History(fit.member.val_loss)
    /\ (fit.pc = "idle" /\ fit'.pc # "idle") => fit'.i = 1
    /\ ens'.isTrained # ens.isTrained =>
          /\ ens'.isTrained
          /\ fit.pc = "loop" /\ fit.i = EnsembleSize + 1
          /\ \A j \in 1..EnsembleSize :
                CompletedOn(ens.models'[j], fit.X_train, fit.epochs)
          /\ ret'.status = "ok"
    /\ (ret = NoRet /\ ret' # NoRet) =>
          /\ fit.pc # "idle" /\ fit'.pc = "idle"
          /\ ret'.status = "error" =>
                /\ ens'.isTrained = ens.isTrained
                /\ ens'.models = ens.models
          /\ ret'.status = "ok" => ens'.isTrained

\* C20: EnsembleAutoencoder.train trains its members one after another in
\* index order on the call's matrices: the loop index moves from member k to
\* member k+1 only in the step in which member k's fit is over and it has
\* calibrated its threshold, only the member at the loop index changes, each
\* member is given min(epochs, 30) epochs, isTrained is set only after the
\* third member has completed, and a member's failure ends the call with
\* the error and leaves isTrained as it was.
C20_SequentialTraining == []C20_State /\ [][C20_Step]_vars

\* A call with more than 30 epochs has returned with all three members
\* trained on 30.
C20_Witness ==
    /\ ret.op = "train" /\ ret.status = "ok"
    /\ ret.epochs > EnsembleEpochCap
    /\ ens.isTrained
    /\ \A j \in 1..EnsembleSize :
          ens.models[j].isTrained /\ ens.models[j].epochs = EnsembleEpochCap

-----------------------------------------------------------------------------
(* Properties of train(), saveWeights() and loadWeights() of              *)
(* MLPAutoencoder, under SpecPersist.                                      *)

Returns(op, status) == ret = NoRet /\ ret'.op = op /\ ret'.status = status

\* C21 (as claimed): a train() that fails on invalid input leaves model,
\* threshold, history, epochs, batchSize, trainingData and isTrained as they
\* were before the call.
C21_FailedTrainLeavesState ==
    [][Returns("train", "error") =>
          /\ mlp'.model = mlp.model
          /\ mlp'.threshold = mlp.threshold
          /\ mlp'.history = mlp.history
          /\ mlp'.epochs = mlp.epochs
          /\ mlp'.batchSize = mlp.batchSize
          /\ mlp'.trainingData = mlp.trainingData
          /\ mlp'.isTrained = mlp.isTrained]_vars

\* The threshold t is one that calculateThreshold gives the weights w.
CalibratedFor(w, t) ==
    \E X \in PersistTrainMatrices : t = ThresholdOf(ErrorArray(w, X))

C22_State ==
    /\ (mlp.model # "null" /\ mlp.threshold # Null) =>
          CalibratedFor(mlp.model, mlp.threshold)
    /\ store.model # "none" =>
          /\ store.config # Null
          /\ store.config.threshold # Null =>
                CalibratedFor(store.model, store.config.threshold)

C22_Step ==
    /\ Returns("loadWeights", "ok") =>
          /\ store.config # Null
          /\ mlp'.model = store.model
          /\ ModelData(mlp') = store.config
    /\ Returns("saveWeights", "ok") =>
          /\ store'.model = mlp.model
          /\ store'.config = ModelData(mlp)

-----------------------------------------------------------------------------
(* Properties of EnsembleAutoencoder with the storage, under               *)
(* SpecEnsembleStore.                                                      *)

\* The storage is as a saveWeights() of the ensemble as it is leaves it: the
\* ensemble has been saved and has not changed since.
Saved ==
    /\ ensembleSaveWeights(ens, store).status = "ok"
    /\ ensembleSaveWeights(ens, store).store = store

\* C23 (as claimed): a loadWeights() of an ensemble that was saved leaves
\* every member with the weights, the configuration and the threshold the
\* member had when the ensemble was saved.
C23_MembersRestored ==
    [][(Returns("loadWeights", "ok") /\ ens.models # <<>> /\ Saved) =>
          \A j \in 1..Len(ens.models) :
              /\ ens'.models[j].model = ens.models[j].model
              /\ ModelData(ens'.models[j]) = ModelData(ens.models[j])]_vars

Usable(m) == m.model # "null" /\ m.threshold # Null

\* C27 (as claimed): between calls, isTrained is true exactly when the
\* ensemble has its 3 members, each with a model and a threshold, and
\* detectAnomalies either reports 'Ensemble not trained' or gives a result.
C27_TrainedIffUsable ==
    /\ ens.isTrained <=>
          /\ Len(ens.models) = EnsembleSize
          /\ \A j \in 1..Len(ens.models) : Usable(ens.models[j])
    /\ ret.op = "detectAnomalies" =>
          \/ ret.out.status = "ok"
          \/ ret.out.message = "Ensemble not trained"

-----------------------------------------------------------------------------
(* The calibrated threshold and the training matrix, under Spec.           *)

TrainingErrors == ErrorArray(mlp.model, mlp.trainingData.rows)
TrainingErrorSet == {TrainingErrors[i] : i \in 1..Len(TrainingErrors)}

\* C25 (as claimed): after a completed train the threshold lies between the
\* smallest and the largest training error, and detectAnomalies on the
\* training matrix scores its highest-error row warning or critical, so the
\* anomaly rate on the training set is above 0.
C25_TrainingSetHasAnomaly ==
    (fit.pc = "idle" /\ mlp.isTrained) =>
        /\ ~Gt(MinOf(TrainingErrorSet), mlp.threshold)
        /\ Geq(MaxOf(TrainingErrorSet), mlp.threshold)
        /\ (ret.op = "detectAnomalies" /\ ret.X = mlp.trainingData.rows) =>
              /\ ret.out.status = "ok"
              /\ ret.out.anomalies[1].severity \in {"warning", "critical"}
              /\ ret.out.anomalyRate.num > 0

\* C26: every record flagged isMajorEvent has severity 'critical'.
C26_MajorEventIsCritical ==
    DetectedWithMetadata =>
        \A i \in 1..Len(Scored) :
            Scored[i].isMajorEvent => Scored[i].severity = "critical"

\* A major event found by its crash pattern whose error is between two and
\* three times the threshold.
C26_Witness ==
    /\ DetectedWithMetadata
    /\ \E i \in 1..Len(Scored) :
          /\ Scored[i].isMajorEvent
          /\ HasCrashPattern(Scored[i].featureContributions)
          /\ ~TimesGeq(1, Scored[i].error, 3, mlp.threshold)
          /\ Scored[i].severity = "critical"

-----------------------------------------------------------------------------
(* Training and classification in the app, under SpecApp.                  *)

\* A trainModel run has started and has not completed.
TrainRunning == \E i \in Instances : app.trains[i] > 0

\* this.anomalyResults is assigned by the classification of detectAnomalies
\* and by nothing else.
Classifies == ~app.anomalyResults /\ app'.anomalyResults

\* A fetchMarketData call takes effect: a request is started.
FetchStarts == \E i \in Instances : app'.fetches[i] > app.fetches[i]

C24_Step ==
    /\ Classifies => ~TrainRunning
    /\ FetchStarts => ~(app.isTraining \/ app.isDetecting)

\* C24 (as claimed): no classification of detectAnomalies is executed
\* between the start and the completion of a trainModel run, and
\* fetchMarketData starts nothing while isTraining or isDetecting is true.
C24_NoClassificationWhileTraining == [][C24_Step]_vars

-----------------------------------------------------------------------------
(* Properties of fetchMarketDataBatched and setDateRange, under SpecFetch.  *)

TimeLt(a, b) == a.n * b.d < b.n * a.d
TimeLeq(a, b) == a.n * b.d <= b.n * a.d
TimeIs(a, t) == a.n = t * a.d

\* The open times of the klines inside [start, end].
GridTimes(start, end, step) ==
    {k * step : k \in CeilDiv(start, step)..(end \div step)}

FetchedInBatches ==
    ret.op = "fetchMarketDataBatched" /\ ret.status = "ok" /\ ret.batched

\* C28 (as claimed): when the range is split into batches, the windows are
\* requested in increasing time order, each request asks for at most 1000
\* records, the windows together cover exactly [start, end], and the
\* combined klines are strictly increasing in open time and are exactly the
\* klines of the range.
C28_BatchesCoverRange ==
    FetchedInBatches =>
        LET R == ret.requests
            n == Len(R)
            A == ret.allData
        IN /\ \A j \in 1..(n - 1) : TimeLt(R[j].startTime, R[j + 1].startTime)
           /\ \A j \in 1..n : R[j].limit <= 1000
           /\ TimeIs(R[1].startTime, ret.start.t)
           /\ TimeIs(R[n].endTime, ret.end.t)
           /\ \A j \in 1..n : TimeLeq(R[j].startTime, R[j].endTime)
           /\ \A j \in 1..(n - 1) : TimeLeq(R[j + 1].startTime, R[j].endTime)
           /\ \A j \in 1..(Len(A) - 1) : A[j] < A[j + 1]
           /\ {A[j] : j \in 1..Len(A)}
                 = GridTimes(ret.start.t, ret.end.t, getIntervalMs(ret.interval))

\* C29 (as claimed): every request of a fetchMarketDataBatched call uses the
\* interval given, a window inside [startDate, endDate] and a limit of at
\* most 1000, in the batched and in the single-request case.
C29_RequestsAsGiven ==
    fn.pc # "idle" =>
        \A j \in 1..Len(fn.requests) :
            LET r == fn.requests[j]
            IN /\ r.interval = fn.interval
               /\ TimeLeq(Time(fn.start.t, 1), r.startTime)
               /\ TimeLeq(r.startTime, r.endTime)
               /\ TimeLeq(r.endTime, Time(fn.end.t, 1))
               /\ r.limit <= 1000

C30_State ==
    (loader.startDate # Null /\ loader.endDate # Null) =>
        loader.startDate.t < loader.endDate.t

C30_Step ==
    (ret = NoRet /\ ret'.op = "setDateRange"
        /\ ~(ret'.startDate.t < ret'.endDate.t)) =>
        /\ ret'.status = "error"
        /\ ret'.message = "Start date must be before end date"
        /\ loader'.startDate = loader.startDate
        /\ loader'.endDate = loader.endDate

\* C30 (as claimed): setDateRange with a start date not strictly before the
\* end date throws 'Start date must be before end date' and leaves startDate
\* and endDate as they were; whenever both are set, startDate < endDate.
C30_DateRange == []C30_State /\ [][C30_Step]_vars

====
